---- MODULE Spec2Model ----
(***************************************************************************)
(* The rule-authoring workflow of tools/rules/rules.py as a state machine. *)
(* Every tool is stateless: one action per tool call, which records the    *)
(* call (arguments, backend answers, returned dictionary, write requests   *)
(* sent to the backend) in `last`.  The caller's working memory (the       *)
(* selected tasks and the values it got back from confirm calls) is kept   *)
(* in `selected` and `confirmed`; the tools never read it.                 *)
(*                                                                         *)
(* Strings that are built or split by the code (task names, input names,   *)
(* unique identifiers, file names) are sequences of tokens; the token "."  *)
(* is the dot character and no other token contains a dot.                 *)
(***************************************************************************)
EXTENDS Integers, Sequences, FiniteSets, TLC

VARIABLES catalog, last, selected, confirmed, pager, inflight

vars == <<catalog, last, selected, confirmed, pager, inflight>>

\* ------------------------------------------------------------------ bounds
MaxSelected == 2
MaxEntries == 2

\* ------------------------------------------------------------ Python values
\* A value that may be None is a tagged tuple; None itself is <<"None">>.
None == <<"None">>
Str(s) == <<"str", s>>
IntV(s) == <<"int", s>>
FloatV(s) == <<"float", s>>
BoolV(s) == <<"bool", s>>
DateV(s) == <<"date", s>>
Url(name) == <<"url", name>>

\* dict.get(key) / dict.get(key, default) on a record used as a dictionary
Get(d, k) == IF k \in DOMAIN d THEN d[k] ELSE None
GetOr(d, k, dflt) == IF k \in DOMAIN d THEN d[k] ELSE dflt

\* str.upper() on the data-type strings that occur
Upper(s) ==
  CASE s = "file" -> "FILE"
    [] s = "File" -> "FILE"
    [] s = "http_config" -> "HTTP_CONFIG"
    [] s = "string" -> "STRING"
    [] OTHER -> s

Dot == "."

\* f"{a}.{b}" and f"{a}_{b}{ext}" on token sequences
RECURSIVE FirstDot(_, _)
FirstDot(s, i) ==
  IF i > Len(s) THEN 0
  ELSE IF s[i] = Dot THEN i ELSE FirstDot(s, i + 1)

HasDot(s) == FirstDot(s, 1) # 0

\* unique_input_id.split(".", 1) for an identifier that holds a dot
SplitTask(s) == SubSeq(s, 1, FirstDot(s, 1) - 1)
SplitInput(s) == SubSeq(s, FirstDot(s, 1) + 1, Len(s))

SeqToSet(s) == {s[i] : i \in 1..Len(s)}

\* ---------------------------------------------------------- the task catalog
\* TaskInputVO (the fields the workflow reads)
Inp(n, dt, dv, req, tf, fmt) ==
  [name |-> n, dataType |-> dt, defaultValue |-> dv, required |-> req,
   templateFile |-> tf, format |-> fmt]

\* TaskVO (the fields the workflow reads)
Task(n, ins, app) == [name |-> n, inputs |-> ins, appType |-> app]

TFetchData ==
  Task(<<"FetchData">>,
       <<Inp(<<"Source">>, "STRING", "", TRUE, "", "")>>,
       <<"nocredapp">>)
TTransform ==
  Task(<<"Transform">>,
       <<Inp(<<"Source">>, "STRING", "csv", TRUE, "", ""),
         Inp(<<"Config">>, "FILE", "", TRUE, "", "json")>>,
       <<"Slack">>)
TDotted ==
  Task(<<"A", ".", "B">>,
       <<Inp(<<"N">>, "INT", "5", FALSE, "", ""),
         Inp(<<"Mapping">>, "STRING", "", FALSE, "b64:tmplYaml", "yaml")>>,
       <<"Jira">>)
TSchedule ==
  Task(<<"Schedule">>,
       <<Inp(<<"Rate">>, "FLOAT", "1.0", TRUE, "", ""),
         Inp(<<"Day">>, "DATE", "", FALSE, "", "")>>,
       <<"nocredapp">>)
TPlain ==
  Task(<<"A">>,
       <<Inp(<<"B", ".", "N">>, "BOOLEAN", "", TRUE, "", ""),
         Inp(<<"N">>, "http_config", "", TRUE, "b64:tmplJson", "json")>>,
       <<"nocredapp">>)

Catalogs ==
  { <<>>,
    <<TFetchData, TTransform>>,
    <<TDotted, TPlain>>,
    <<TTransform, TPlain, TDotted>>,
    <<TSchedule>> }

\* names a caller may pass
TaskNames == {<<"FetchData">>, <<"Transform">>, <<"A", ".", "B">>, <<"A">>, <<"Schedule">>, <<"Nope">>}
InputNames == {<<"Source">>, <<"Config">>, <<"N">>, <<"B", ".", "N">>, <<"Mapping">>, <<"Rate">>, <<"Day">>}

\* -------------------------------------------------------------- the backend
\* rule.fetch_task_api(params={"name": task_name}): the tasks of that name
RECURSIVE SelectByName(_, _)
SelectByName(cat, n) ==
  IF cat = <<>> THEN <<>>
  ELSE IF Head(cat).name = n THEN <<Head(cat)>> \o SelectByName(Tail(cat), n)
  ELSE SelectByName(Tail(cat), n)

fetch_task_api_name(cat, n) == [items |-> SelectByName(cat, n)]
\* rule.fetch_task_api(params={"tags": "primitive"}): the whole catalog
fetch_task_api_tags(cat) == [items |-> cat]

\* rule.is_valid_key(resp, key, array_check=True): key present, non-empty list
is_valid_key_array(resp, k) == k \in DOMAIN resp /\ resp[k] # <<>>
\* rule.is_valid_key(resp, key): key present with a value
is_valid_key(resp, k) == k \in DOMAIN resp /\ resp[k] # None

\* the lookup every by-name tool starts with: the task, or <<>> when not found
LookupTask(cat, n) ==
  LET resp == fetch_task_api_name(cat, n)
  IN IF is_valid_key_array(resp, "items") THEN <<resp.items[1]>> ELSE <<>>

\* for inp in task.inputs: if inp.name == input_name: ...; break
RECURSIVE FindInput(_, _)
FindInput(ins, n) ==
  IF ins = <<>> THEN <<>>
  ELSE IF Head(ins).name = n THEN <<Head(ins)>>
  ELSE FindInput(Tail(ins), n)

\* ------------------------------------------------- helpers of utils/rule.py
\* rule.decode_content: the stored template, base64-decoded
decode_content(tf) ==
  CASE tf = "b64:tmplJson" -> "tmplJson"
    [] tf = "b64:tmplYaml" -> "tmplYaml"
    [] OTHER -> tf

\* rule.generate_example_content: an example derived from the template
generate_example_content(decoded, fmt) ==
  CASE decoded = "tmplJson" -> "exampleJson"
    [] decoded = "tmplYaml" -> "exampleYaml"
    [] OTHER -> "example"

\* the formats under which a content parses
ParsesAs(content) ==
  CASE content = "userJson" -> {"json", "yaml"}
    [] content = "userJsonNoField" -> {"json", "yaml"}
    [] content = "userYaml" -> {"yaml"}
    [] content = "tmplJson" -> {"json", "yaml"}
    [] content = "tmplYaml" -> {"yaml"}
    [] content = "exampleJson" -> {"json", "yaml"}
    [] OTHER -> {}

\* the contents that hold every field the template requires
HasRequiredFields(content) == content # "userJsonNoField"

\* rule.validate_template_content_enhanced: syntax of the declared format,
\* then presence of the template's required fields
validate_template_content_enhanced(task_input, user_content) ==
  LET fmt == task_input.format
      syntax == fmt \notin {"json", "yaml", "toml", "xml"} \/ fmt \in ParsesAs(user_content)
      fields == task_input.templateFile = "" \/ HasRequiredFields(user_content)
  IN [valid |-> syntax /\ fields,
      errors |-> IF ~syntax THEN <<"syntax">> ELSE IF ~fields THEN <<"missing field">> ELSE <<>>]

\* rule.get_file_extension
get_file_extension(fmt) ==
  CASE fmt = "json" -> ".json"
    [] fmt = "yaml" -> ".yaml"
    [] fmt = "toml" -> ".toml"
    [] fmt = "xml" -> ".xml"
    [] OTHER -> ".txt"

\* int(s): the integer a text spells, None for a text that spells none
IntParse(s) ==
  IF s \in {"0", "1", "5", "12"} THEN IntV(s) ELSE None

\* float(s): integer-looking texts are floats too; 12 and 12.0 are one value
FloatParse(s) ==
  CASE s \in {"0", "0.0"} -> FloatV("0.0")
    [] s \in {"1", "1.0"} -> FloatV("1.0")
    [] s \in {"5", "5.0"} -> FloatV("5.0")
    [] s \in {"12", "12.0"} -> FloatV("12.0")
    [] s = "12.5" -> FloatV("12.5")
    [] OTHER -> None

\* str.lower() on the texts that occur
Lower(s) ==
  CASE s \in {"True", "TRUE"} -> "true"
    [] s \in {"False", "FALSE"} -> "false"
    [] s \in {"Yes", "YES"} -> "yes"
    [] s \in {"No", "NO"} -> "no"
    [] OTHER -> s

\* a boolean among true/false/yes/no/1/0 in any letter case
BoolParse(s) ==
  IF Lower(s) \in {"true", "yes", "1"} THEN BoolV("True")
  ELSE IF Lower(s) \in {"false", "no", "0"} THEN BoolV("False")
  ELSE None

\* a date or datetime in strict ISO format
IsoParse(s) ==
  IF s \in {"2024-01-31"} THEN DateV(s) ELSE None

\* rule.validate_parameter_value on the text a caller passes: the value
\* converted to the declared scalar type (integer parse, float parse,
\* boolean vocabulary, ISO date/datetime parse, anything else as it is),
\* invalid when the text does not parse
validate_parameter_value(value, dataType) ==
  LET s == value[2]
      converted == CASE dataType = "INT" -> IntParse(s)
                     [] dataType = "FLOAT" -> FloatParse(s)
                     [] dataType = "BOOLEAN" -> BoolParse(s)
                     [] dataType \in {"DATE", "DATETIME"} -> IsoParse(s)
                     [] OTHER -> Str(s)
  IN [valid |-> converted # None, converted_value |-> converted]

\* str(value): the text of a stored value, the form in which it is passed
\* as the str argument confirmed_value
PyStr(value) == Str(value[2])

\* base64.b64encode(content.encode("utf-8")).decode("utf-8"): injective
B64(content) == <<"b64", content>>

\* abs(hash(encoded_content)) % 100000 of the running process: the hash is
\* taken of the string as it is sent, the base64 text of a utf-8 upload or
\* the string passed as base64, and is randomised per process (seed)
HashTok(seed, enc) ==
  CASE seed = 0 /\ enc = <<"b64", "garbage">> -> "3160"
    [] seed = 0 /\ enc = <<"b64", "tmplJson">> -> "30284"
    [] seed = 0 /\ enc = <<"b64", "userJson">> -> "40213"
    [] seed = 0 /\ enc = <<"b64", "userJsonNoField">> -> "27621"
    [] seed = 0 /\ enc = <<"b64", "userYaml">> -> "7"
    [] seed = 0 /\ enc = <<"raw", "garbage">> -> "51433"
    [] seed = 0 /\ enc = <<"raw", "tmplJson">> -> "82149"
    [] seed = 0 /\ enc = <<"raw", "userJson">> -> "16750"
    [] seed = 0 /\ enc = <<"raw", "userJsonNoField">> -> "66772"
    [] seed = 0 /\ enc = <<"raw", "userYaml">> -> "64434"
    [] seed = 1 /\ enc = <<"b64", "garbage">> -> "11027"
    [] seed = 1 /\ enc = <<"b64", "tmplJson">> -> "64337"
    [] seed = 1 /\ enc = <<"b64", "userJson">> -> "99871"
    [] seed = 1 /\ enc = <<"b64", "userJsonNoField">> -> "4643"
    [] seed = 1 /\ enc = <<"b64", "userYaml">> -> "40213"
    [] seed = 1 /\ enc = <<"raw", "garbage">> -> "7718"
    [] seed = 1 /\ enc = <<"raw", "tmplJson">> -> "55301"
    [] seed = 1 /\ enc = <<"raw", "userJson">> -> "80948"
    [] seed = 1 /\ enc = <<"raw", "userJsonNoField">> -> "90412"
    [] seed = 1 /\ enc = <<"raw", "userYaml">> -> "57136"
    [] OTHER -> "31337"

\* ----------------------------------------------------------------- results
Fail(err) == [success |-> FALSE, error |-> err]
Dict(d) == [rtype |-> "dict", result |-> d, requests |-> <<>>]
DictReq(d, reqs) == [rtype |-> "dict", result |-> d, requests |-> reqs]
\* mutant: every data type is uploaded
IsFileType_Always(dt) == TRUE
\* task_input.dataType.upper() in ["FILE", "HTTP_CONFIG"]
IsFileType(dt) == Upper(dt) \in {"FILE", "HTTP_CONFIG"}

\* ------------------------------------------------------------------- tools
\* the summaries the loop of get_tasks_by_category appends, one for each
\* element of the list it iterates over
TaskSummaries(iterated) ==
  [k \in 1..Len(iterated) |->
     [name |-> iterated[k].name, input_count |-> Len(iterated[k].inputs),
      has_templates |-> \E j \in 1..Len(iterated[k].inputs) :
                          iterated[k].inputs[j].templateFile # ""]]

\* resource tasks://by-category/{category}; the backend holds the catalog
\* under the tag "primitive" and nothing under any other tag
get_tasks_by_category(cat, fetch, category) ==
  IF fetch = "raise"
  THEN [rtype |-> "str", result |-> [error |-> "An error occurred while fetching the tasks"],
        requests |-> <<>>]
  ELSE
    LET tasks_resp == IF category = "primitive" THEN fetch_task_api_tags(cat)
                      ELSE [items |-> <<>>]
        tasks == IF is_valid_key_array(tasks_resp, "items") THEN tasks_resp.items ELSE <<>>
    IN IF tasks = <<>>
       THEN [rtype |-> "str", result |-> [error |-> "No tasks found", tasks |-> <<>>],
             requests |-> <<>>]
       ELSE LET filtered_tasks == <<>>
                appended == filtered_tasks \o TaskSummaries(filtered_tasks)
            IN [rtype |-> "str",
                result |-> [category |-> category, tasks |-> appended,
                            count |-> Len(appended)],
                requests |-> <<>>]

\* mutant: the template of the input is decoded without testing that it has one
get_template_guidance_NoTemplateTest(cat, fetch, task_name, input_name) ==
  IF fetch = "raise" THEN Dict(Fail("Failed to get template guidance")) ELSE
  LET task == LookupTask(cat, task_name) IN
  IF task = <<>> THEN Dict(Fail("Task not found")) ELSE
  LET task_input == FindInput(task[1].inputs, input_name) IN
  IF task_input = <<>> THEN Dict(Fail("Input not found")) ELSE
  LET inp == task_input[1]
      decoded_template == decode_content(inp.templateFile) IN
  Dict([success |-> TRUE, task_name |-> task_name, input_name |-> input_name,
        format |-> inp.format, decoded_template |-> decoded_template,
        example_content |-> generate_example_content(decoded_template, inp.format)])

get_template_guidance(cat, fetch, task_name, input_name) ==
  IF fetch = "raise" THEN Dict(Fail("Failed to get template guidance")) ELSE
  LET task == LookupTask(cat, task_name) IN
  IF task = <<>> THEN Dict(Fail("Task not found")) ELSE
  LET task_input == FindInput(task[1].inputs, input_name) IN
  IF task_input = <<>> THEN Dict(Fail("Input not found")) ELSE
  LET inp == task_input[1] IN
  IF inp.templateFile = "" THEN Dict(Fail("no template file")) ELSE
  LET decoded_template == decode_content(inp.templateFile) IN
  Dict([success |-> TRUE, task_name |-> task_name, input_name |-> input_name,
        format |-> inp.format, decoded_template |-> decoded_template,
        example_content |-> generate_example_content(decoded_template, inp.format)])

\* mutant: the input's own template is staged when it has one
StageTemplateContent_Template(task_name, input_name, inp, user_content) ==
  [success |-> TRUE, task_name |-> task_name, input_name |-> input_name,
   validated_content |-> IF inp.templateFile # "" THEN decode_content(inp.templateFile)
                         ELSE user_content,
   needs_final_confirmation |-> TRUE,
   data_type |-> inp.dataType, format |-> inp.format,
   is_file_type |-> Upper(inp.dataType) \in {"FILE", "HTTP_CONFIG"}]

\* the staged, unconfirmed value collect_template_input returns (line 410)
StageTemplateContent(task_name, input_name, inp, user_content) ==
  [success |-> TRUE, task_name |-> task_name, input_name |-> input_name,
   validated_content |-> user_content, needs_final_confirmation |-> TRUE,
   data_type |-> inp.dataType, format |-> inp.format,
   is_file_type |-> IsFileType(inp.dataType)]

\* mutant: the content is staged whatever the validation says
collect_template_input_Unvalidated(cat, fetch, task_name, input_name, user_content) ==
  IF fetch = "raise" THEN Dict(Fail("Failed to process template input")) ELSE
  LET task == LookupTask(cat, task_name) IN
  IF task = <<>> THEN Dict(Fail("Task not found")) ELSE
  LET task_input == FindInput(task[1].inputs, input_name) IN
  IF task_input = <<>> THEN Dict(Fail("Input not found")) ELSE
  Dict(StageTemplateContent(task_name, input_name, task_input[1], user_content))

collect_template_input(cat, fetch, task_name, input_name, user_content) ==
  IF fetch = "raise" THEN Dict(Fail("Failed to process template input")) ELSE
  LET task == LookupTask(cat, task_name) IN
  IF task = <<>> THEN Dict(Fail("Task not found")) ELSE
  LET task_input == FindInput(task[1].inputs, input_name) IN
  IF task_input = <<>> THEN Dict(Fail("Input not found")) ELSE
  LET inp == task_input[1]
      validation_result == validate_template_content_enhanced(inp, user_content) IN
  IF ~validation_result.valid
  THEN Dict([success |-> FALSE, error |-> "Content validation failed",
             validation_errors |-> validation_result.errors])
  ELSE Dict(StageTemplateContent(task_name, input_name, inp, user_content))

\* the POST of upload_file and what the backend may answer
UploadRequest(rule_name, unique_file_name, encoded_content) ==
  [kind |-> "upload", fileName |-> unique_file_name,
   fileContent |-> encoded_content, ruleName |-> rule_name]

\* mutant: a failed upload is tried a second time
upload_file_Retries(rule_name, file_name, content, content_encoding, post, seed) ==
  IF content_encoding \notin {"utf-8", "base64"}
  THEN Dict([success |-> FALSE, error |-> "Unsupported encoding", filename |-> file_name])
  ELSE
  LET encoded_content == IF content_encoding = "utf-8" THEN B64(content) ELSE <<"raw", content>>
      file_id == <<"file_", HashTok(seed, encoded_content)>>
      unique_file_name == file_id \o <<"_">> \o file_name
      req == UploadRequest(rule_name, unique_file_name, encoded_content)
  IN IF post = "ok"
     THEN DictReq([success |-> TRUE, file_url |-> Url(unique_file_name),
                   filename |-> file_name, file_id |-> file_id,
                   content_encoding |-> content_encoding], <<req>>)
     ELSE DictReq([success |-> FALSE, error |-> "Failed to upload file",
                   filename |-> file_name], <<req, req>>)

upload_file(rule_name, file_name, content, content_encoding, post, seed) ==
  IF content_encoding \notin {"utf-8", "base64"}
  THEN Dict([success |-> FALSE, error |-> "Unsupported encoding", filename |-> file_name])
  ELSE
  LET encoded_content == IF content_encoding = "utf-8" THEN B64(content) ELSE <<"raw", content>>
      file_id == <<"file_", HashTok(seed, encoded_content)>>
      unique_file_name == file_id \o <<"_">> \o file_name
      req == UploadRequest(rule_name, unique_file_name, encoded_content)
      file_upload_resp == IF post = "ok" THEN [fileURL |-> Url(unique_file_name)]
                          ELSE [Message |-> Str("upload rejected")]
  IN IF post = "raise"
     THEN DictReq([success |-> FALSE, error |-> "Failed to upload file",
                   filename |-> file_name], <<req>>)
     ELSE IF is_valid_key(file_upload_resp, "fileURL")
     THEN DictReq([success |-> TRUE, file_url |-> file_upload_resp.fileURL,
                   filename |-> file_name, file_id |-> file_id,
                   content_encoding |-> content_encoding], <<req>>)
     ELSE DictReq([success |-> FALSE, error |-> "Unable to find the uploaded file URL",
                   filename |-> file_name], <<req>>)

\* mutant: the file is named after the input alone
TemplateFileName_InputOnly(task_name, input_name, file_extension) ==
  input_name \o <<file_extension>>

\* file_name = f"{task_name}_{input_name}{file_extension}"
TemplateFileName(task_name, input_name, file_extension) ==
  task_name \o <<"_">> \o input_name \o <<file_extension>>

\* mutant: the outcome of the upload is not looked at
confirm_template_input_IgnoresUpload(cat, fetch, rule_name, task_name, input_name, confirmed_content, post, seed, now) ==
  IF fetch = "raise" THEN Dict(Fail("Failed to confirm template input")) ELSE
  LET task == LookupTask(cat, task_name) IN
  IF task = <<>> THEN Dict(Fail("Task not found")) ELSE
  LET task_input == FindInput(task[1].inputs, input_name) IN
  IF task_input = <<>> THEN Dict(Fail("Input not found")) ELSE
  LET inp == task_input[1] IN
  IF IsFileType(inp.dataType)
  THEN LET file_extension == get_file_extension(inp.format)
           file_name == TemplateFileName(task_name, input_name, file_extension)
           up == upload_file(rule_name, file_name, confirmed_content, "utf-8", post, seed)
       IN DictReq([success |-> TRUE, task_name |-> task_name,
                   input_name |-> input_name, file_url |-> Get(up.result, "file_url"),
                   filename |-> file_name, storage_type |-> "FILE",
                   data_type |-> inp.dataType, format |-> inp.format,
                   timestamp |-> now], up.requests)
  ELSE Dict([success |-> TRUE, task_name |-> task_name, input_name |-> input_name,
             stored_content |-> confirmed_content, storage_type |-> "MEMORY",
             data_type |-> inp.dataType, format |-> inp.format, timestamp |-> now])

confirm_template_input(cat, fetch, rule_name, task_name, input_name, confirmed_content, post, seed, now) ==
  IF fetch = "raise" THEN Dict(Fail("Failed to confirm template input")) ELSE
  LET task == LookupTask(cat, task_name) IN
  IF task = <<>> THEN Dict(Fail("Task not found")) ELSE
  LET task_input == FindInput(task[1].inputs, input_name) IN
  IF task_input = <<>> THEN Dict(Fail("Input not found")) ELSE
  LET inp == task_input[1] IN
  IF IsFileType(inp.dataType)
  THEN LET file_extension == get_file_extension(inp.format)
           file_name == TemplateFileName(task_name, input_name, file_extension)
           up == upload_file(rule_name, file_name, confirmed_content, "utf-8", post, seed)
           upload_result == up.result
       IN IF upload_result.success
          THEN DictReq([success |-> TRUE, task_name |-> task_name,
                        input_name |-> input_name, file_url |-> upload_result.file_url,
                        filename |-> file_name, storage_type |-> "FILE",
                        data_type |-> inp.dataType, format |-> inp.format,
                        timestamp |-> now], up.requests)
          ELSE DictReq(Fail("File upload failed"), up.requests)
  ELSE Dict([success |-> TRUE, task_name |-> task_name, input_name |-> input_name,
             stored_content |-> confirmed_content, storage_type |-> "MEMORY",
             data_type |-> inp.dataType, format |-> inp.format, timestamp |-> now])

\* mutant: a given value is looked at before the default
CollectBranch_ValueFirst(use_default, has_default, user_value) ==
  IF user_value # None THEN "value"
  ELSE IF use_default /\ has_default THEN "default"
  ELSE "prompt"

\* the if / elif / else of collect_parameter_input (lines 635, 639, 649)
CollectBranch(use_default, has_default, user_value) ==
  IF use_default /\ has_default THEN "default"
  ELSE IF user_value # None THEN "value"
  ELSE "prompt"

collect_parameter_input(cat, fetch, task_name, input_name, user_value, use_default) ==
  IF fetch = "raise" THEN Dict(Fail("Failed to process parameter input")) ELSE
  LET task == LookupTask(cat, task_name) IN
  IF task = <<>> THEN Dict(Fail("Task not found")) ELSE
  LET task_input == FindInput(task[1].inputs, input_name) IN
  IF task_input = <<>> THEN Dict(Fail("Input not found")) ELSE
  LET inp == task_input[1]
      is_required == inp.required
      has_default == inp.defaultValue # ""
      branch == CollectBranch(use_default, has_default, user_value)
  IN IF branch = "default"
     THEN Dict([success |-> TRUE, task_name |-> task_name, input_name |-> input_name,
                needs_default_confirmation |-> TRUE,
                default_value |-> Str(inp.defaultValue),
                data_type |-> inp.dataType, required |-> is_required])
     ELSE IF branch = "value"
     THEN LET validation_result == validate_parameter_value(user_value, inp.dataType)
          IN IF ~validation_result.valid
             THEN Dict([success |-> FALSE, error |-> "Invalid value format",
                        expected_type |-> inp.dataType])
             ELSE Dict([success |-> TRUE, task_name |-> task_name,
                        input_name |-> input_name,
                        validated_value |-> validation_result.converted_value,
                        needs_final_confirmation |-> TRUE,
                        data_type |-> inp.dataType, required |-> is_required])
     ELSE Dict([success |-> TRUE, task_name |-> task_name, input_name |-> input_name,
                needs_user_input |-> TRUE, data_type |-> inp.dataType,
                required |-> is_required, has_default |-> has_default,
                default_value |-> IF has_default THEN Str(inp.defaultValue) ELSE None])

\* mutant: a "default" confirmation stores the declared default
confirm_parameter_input_DefaultStoresDefault(cat, fetch, task_name, input_name, confirmed_value, confirmation_type, now) ==
  IF fetch = "raise" THEN Dict(Fail("Failed to confirm parameter input")) ELSE
  LET task == LookupTask(cat, task_name) IN
  IF task = <<>> THEN Dict(Fail("Task not found")) ELSE
  LET task_input == FindInput(task[1].inputs, input_name) IN
  IF task_input = <<>> THEN Dict(Fail("Input not found")) ELSE
  LET inp == task_input[1]
      validation_result == validate_parameter_value(confirmed_value, inp.dataType)
  IN IF ~validation_result.valid
     THEN Dict([success |-> FALSE, error |-> "Confirmed value is invalid"])
     ELSE Dict([success |-> TRUE, task_name |-> task_name, input_name |-> input_name,
                stored_value |-> IF confirmation_type = "default" /\ inp.defaultValue # ""
                                 THEN Str(inp.defaultValue)
                                 ELSE validation_result.converted_value,
                data_type |-> inp.dataType, required |-> inp.required,
                storage_type |-> "MEMORY", confirmation_type |-> confirmation_type,
                timestamp |-> now])

\* confirm_parameter_input
confirm_parameter_input(cat, fetch, task_name, input_name, confirmed_value, confirmation_type, now) ==
  IF fetch = "raise" THEN Dict(Fail("Failed to confirm parameter input")) ELSE
  LET task == LookupTask(cat, task_name) IN
  IF task = <<>> THEN Dict(Fail("Task not found")) ELSE
  LET task_input == FindInput(task[1].inputs, input_name) IN
  IF task_input = <<>> THEN Dict(Fail("Input not found")) ELSE
  LET inp == task_input[1]
      validation_result == validate_parameter_value(confirmed_value, inp.dataType)
  IN IF ~validation_result.valid
     THEN Dict([success |-> FALSE, error |-> "Confirmed value is invalid"])
     ELSE Dict([success |-> TRUE, task_name |-> task_name, input_name |-> input_name,
                stored_value |-> validation_result.converted_value,
                data_type |-> inp.dataType, required |-> inp.required,
                storage_type |-> "MEMORY", confirmation_type |-> confirmation_type,
                timestamp |-> now])

\* ------------------------------------------- prepare_input_collection_overview
\* mutant: an existing key keeps its first value
Put_KeepFirst(f, k, v) == [x \in (DOMAIN f) \cup {k} |-> IF x \in DOMAIN f THEN f[x] ELSE v]

\* dict[key] = value on a function used as a dictionary
Put(f, k, v) == [x \in (DOMAIN f) \cup {k} |-> IF x = k THEN v ELSE f[x]]
EmptyDict == <<>>

\* mutant: an unknown name falls back to the first task of the catalog
FindTask_FirstAvailable(available_tasks, task_name) ==
  IF \E k \in 1..Len(available_tasks) : available_tasks[k].name = task_name
  THEN <<available_tasks[CHOOSE k \in 1..Len(available_tasks) :
                           /\ available_tasks[k].name = task_name
                           /\ \A j \in 1..(k - 1) : available_tasks[j].name # task_name]>>
  ELSE IF available_tasks = <<>> THEN <<>> ELSE <<Head(available_tasks)>>

\* for available_task in available_tasks: if available_task.name == task_name: ...; break
RECURSIVE FindTask(_, _)
FindTask(available_tasks, task_name) ==
  IF available_tasks = <<>> THEN <<>>
  ELSE IF Head(available_tasks).name = task_name THEN <<Head(available_tasks)>>
  ELSE FindTask(Tail(available_tasks), task_name)

\* unique_input_id = f"{task_name}.{inp.name}"
UniqueInputId(task_name, input_name) == task_name \o <<Dot>> \o input_name

\* mutant: both conditions demanded instead of either
IsTemplateInput_Both(inp) == inp.templateFile # "" /\ Upper(inp.dataType) \in {"FILE", "HTTP_CONFIG"}

\* if inp.templateFile or inp.dataType.upper() in ["FILE", "HTTP_CONFIG"]
IsTemplateInput(inp) == inp.templateFile # "" \/ Upper(inp.dataType) \in {"FILE", "HTTP_CONFIG"}

\* mutant: every input classified as a template is reported to have one
InputInfo_TemplateByClass(task_name, inp) ==
  [task_name |-> task_name, input_name |-> inp.name,
   unique_input_id |-> UniqueInputId(task_name, inp.name),
   data_type |-> inp.dataType, required |-> inp.required,
   has_template |-> IsTemplateInput(inp),
   format |-> IF inp.templateFile # "" THEN inp.format ELSE "None",
   has_default |-> inp.defaultValue # "",
   default_value |-> IF inp.defaultValue # "" THEN Str(inp.defaultValue) ELSE None]

\* input_info (lines 819-820)
InputInfo(task_name, inp) ==
  [task_name |-> task_name, input_name |-> inp.name,
   unique_input_id |-> UniqueInputId(task_name, inp.name),
   data_type |-> inp.dataType, required |-> inp.required,
   has_template |-> inp.templateFile # "",
   format |-> IF inp.templateFile # "" THEN inp.format ELSE "None",
   has_default |-> inp.defaultValue # "",
   default_value |-> IF inp.defaultValue # "" THEN Str(inp.defaultValue) ELSE None]

\* one pass of the inner loop (for inp in task.inputs) over the analysis
RECURSIVE AnalyseInputs(_, _, _)
AnalyseInputs(ia, task_name, ins) ==
  IF ins = <<>> THEN ia
  ELSE
    LET inp == Head(ins)
        info == InputInfo(task_name, inp)
        withMap == [ia EXCEPT !.unique_input_map =
                      Put(@, info.unique_input_id,
                          [task_name |-> task_name, input_name |-> inp.name,
                           task_input_obj |-> inp])]
        next == IF IsTemplateInput(inp)
                THEN [withMap EXCEPT !.template_inputs = Append(@, info),
                                     !.template_count = @ + 1,
                                     !.estimated_half_minutes = @ + 6]
                ELSE [withMap EXCEPT !.parameter_inputs = Append(@, info),
                                     !.parameter_count = @ + 1,
                                     !.estimated_half_minutes = @ + 1]
    IN AnalyseInputs(next, task_name, Tail(ins))

\* the outer loop (for task_name in selected_tasks), skipping unknown names
RECURSIVE AnalyseTasks(_, _, _)
AnalyseTasks(ia, available_tasks, sel) ==
  IF sel = <<>> THEN ia
  ELSE
    LET task == FindTask(available_tasks, Head(sel))
    IN IF task = <<>> THEN AnalyseTasks(ia, available_tasks, Tail(sel))
       ELSE AnalyseTasks(AnalyseInputs(ia, Head(sel), task[1].inputs),
                         available_tasks, Tail(sel))

prepare_input_collection_overview(cat, fetch, selected_tasks) ==
  IF selected_tasks = <<>> THEN Dict(Fail("No tasks selected for input analysis")) ELSE
  IF fetch = "raise" THEN Dict(Fail("Failed to prepare input overview")) ELSE
  LET tasks_resp == fetch_task_api_tags(cat)
      available_tasks == IF is_valid_key_array(tasks_resp, "items") THEN tasks_resp.items ELSE <<>>
      empty == [template_inputs |-> <<>>, parameter_inputs |-> <<>>, total_count |-> 0,
                template_count |-> 0, parameter_count |-> 0,
                estimated_half_minutes |-> 0, unique_input_map |-> EmptyDict]
  IN IF available_tasks = <<>>
     THEN [rtype |-> "str", result |-> Fail("No tasks loaded"), requests |-> <<>>]
     ELSE
       LET looped == AnalyseTasks(empty, available_tasks, selected_tasks)
           input_analysis == [looped EXCEPT !.total_count =
                                looped.template_count + looped.parameter_count]
       IN Dict([success |-> TRUE, input_analysis |-> input_analysis,
                unique_input_map |-> input_analysis.unique_input_map])

\* ------------------------------------------------------ verify_collected_inputs
\* the status strings, as tokens: CHECK is the check mark, WARN the warning sign
StatusValidated == <<"CHECK", "Validated">>
StatusNeedsValidation == <<"WARN", "Needs validation">>
StatusSet == <<"CHECK", "Set">>
StatusMissing == <<"WARN", "Missing">>

\* "Missing" in item["status"] or the warning sign in item["status"]
StatusFlagsMissing(status) == "Missing" \in SeqToSet(status) \/ "WARN" \in SeqToSet(status)

\* mutant: the file name is taken instead of the uploaded file's URL
FileInputValue_Filename(file_info) ==
  IF "filename" \in DOMAIN file_info THEN <<"name", file_info.filename>> ELSE None

\* input_value = file_info.get("file_url")
FileInputValue(file_info) == Get(file_info, "file_url")

\* the loop over template_files.items()
RECURSIVE VerifyTemplateFiles(_, _)
VerifyTemplateFiles(vs, items) ==
  IF items = <<>> THEN vs
  ELSE
    LET unique_input_id == Head(items)[1]
        file_info == Head(items)[2]
    IN IF ~HasDot(unique_input_id) THEN VerifyTemplateFiles(vs, Tail(items))
       ELSE
         LET task_name == SplitTask(unique_input_id)
             input_name == SplitInput(unique_input_id)
             rule_input_name == input_name
             input_value == FileInputValue(file_info)
             item == [unique_input_id |-> unique_input_id, task_name |-> task_name,
                      input_name |-> input_name,
                      file_url |-> Get(file_info, "file_url"),
                      data_type |-> GetOr(file_info, "data_type", "FILE"),
                      status |-> IF GetOr(file_info, "validated", FALSE)
                                 THEN StatusValidated ELSE StatusNeedsValidation]
             meta == [name |-> input_name,
                      dataType |-> GetOr(file_info, "data_type", "FILE"),
                      required |-> GetOr(file_info, "required", TRUE),
                      defaultValue |-> input_value]
             mapping == [task_name |-> task_name, input_name |-> input_name,
                         unique_id |-> unique_input_id,
                         rule_input_name |-> rule_input_name]
         IN VerifyTemplateFiles(
              [vs EXCEPT !.template_files = Append(@, item),
                         !.structured_inputs = Put(@, rule_input_name, input_value),
                         !.inputs_meta = Append(@, meta),
                         !.task_input_mapping = Put(@, rule_input_name, mapping)],
              Tail(items))

\* mutant: a parameter whose bare name is already present adds no second
\* inputs_meta entry
RECURSIVE VerifyParameterValues_MetaOnce(_, _)
VerifyParameterValues_MetaOnce(vs, items) ==
  IF items = <<>> THEN vs
  ELSE
    LET unique_input_id == Head(items)[1]
        value_info == Head(items)[2]
    IN IF ~HasDot(unique_input_id) THEN VerifyParameterValues_MetaOnce(vs, Tail(items))
       ELSE
         LET task_name == SplitTask(unique_input_id)
             input_name == SplitInput(unique_input_id)
             input_value == Get(value_info, "value")
             item == [unique_input_id |-> unique_input_id, task_name |-> task_name,
                      input_name |-> input_name,
                      value |-> Get(value_info, "value"),
                      data_type |-> GetOr(value_info, "data_type", "None"),
                      status |-> IF Get(value_info, "value") # None
                                 THEN StatusSet ELSE StatusMissing]
             meta == [name |-> input_name,
                      dataType |-> GetOr(value_info, "data_type", "STRING"),
                      required |-> GetOr(value_info, "required", TRUE),
                      defaultValue |-> input_value]
             mapping == [task_name |-> task_name, input_name |-> input_name,
                         unique_id |-> unique_input_id,
                         rule_input_name |-> input_name]
         IN VerifyParameterValues_MetaOnce(
              [vs EXCEPT !.parameter_values = Append(@, item),
                         !.structured_inputs = Put(@, input_name, input_value),
                         !.inputs_meta = IF input_name \in DOMAIN vs.structured_inputs
                                         THEN @ ELSE Append(@, meta),
                         !.task_input_mapping = Put(@, input_name, mapping)],
              Tail(items))

\* the loop over parameter_values.items()
RECURSIVE VerifyParameterValues(_, _)
VerifyParameterValues(vs, items) ==
  IF items = <<>> THEN vs
  ELSE
    LET unique_input_id == Head(items)[1]
        value_info == Head(items)[2]
    IN IF ~HasDot(unique_input_id) THEN VerifyParameterValues(vs, Tail(items))
       ELSE
         LET task_name == SplitTask(unique_input_id)
             input_name == SplitInput(unique_input_id)
             rule_input_name == input_name
             input_value == Get(value_info, "value")
             item == [unique_input_id |-> unique_input_id, task_name |-> task_name,
                      input_name |-> input_name,
                      value |-> Get(value_info, "value"),
                      data_type |-> GetOr(value_info, "data_type", "None"),
                      status |-> IF Get(value_info, "value") # None
                                 THEN StatusSet ELSE StatusMissing]
             meta == [name |-> input_name,
                      dataType |-> GetOr(value_info, "data_type", "STRING"),
                      required |-> GetOr(value_info, "required", TRUE),
                      defaultValue |-> input_value]
             mapping == [task_name |-> task_name, input_name |-> input_name,
                         unique_id |-> unique_input_id,
                         rule_input_name |-> rule_input_name]
         IN VerifyParameterValues(
              [vs EXCEPT !.parameter_values = Append(@, item),
                         !.structured_inputs = Put(@, rule_input_name, input_value),
                         !.inputs_meta = Append(@, meta),
                         !.task_input_mapping = Put(@, rule_input_name, mapping)],
              Tail(items))

\* for item in template_files + parameter_values: if flagged: missing.append(id)
RECURSIVE MissingInputs(_)
MissingInputs(items) ==
  IF items = <<>> THEN <<>>
  ELSE IF StatusFlagsMissing(Head(items).status)
       THEN <<Head(items).unique_input_id>> \o MissingInputs(Tail(items))
       ELSE MissingInputs(Tail(items))

\* mutant: readiness taken from the number of collected entries
VerificationResult_ReadyByTotal(verification_summary) ==
  [success |-> TRUE, verification_summary |-> verification_summary,
   ready_for_creation |-> verification_summary.total_collected > 0,
   missing_count |-> Len(verification_summary.missing_inputs),
   structured_inputs |-> verification_summary.structured_inputs,
   inputs_meta |-> verification_summary.inputs_meta,
   task_input_mapping |-> verification_summary.task_input_mapping]

\* the dictionary verify_collected_inputs returns (line 1001)
VerificationResult(verification_summary) ==
  [success |-> TRUE, verification_summary |-> verification_summary,
   ready_for_creation |-> Len(verification_summary.missing_inputs) = 0,
   missing_count |-> Len(verification_summary.missing_inputs),
   structured_inputs |-> verification_summary.structured_inputs,
   inputs_meta |-> verification_summary.inputs_meta,
   task_input_mapping |-> verification_summary.task_input_mapping]

verify_collected_inputs(collected_inputs) ==
  IF DOMAIN collected_inputs = {} THEN Dict(Fail("No inputs provided for verification")) ELSE
  LET start == [template_files |-> <<>>, parameter_values |-> <<>>, total_collected |-> 0,
                missing_inputs |-> <<>>, structured_inputs |-> EmptyDict,
                inputs_meta |-> <<>>, task_input_mapping |-> EmptyDict]
      template_files == GetOr(collected_inputs, "template_files", <<>>)
      afterTemplates == VerifyTemplateFiles(start, template_files)
      parameter_values == GetOr(collected_inputs, "parameter_values", <<>>)
      afterParameters == VerifyParameterValues(afterTemplates, parameter_values)
      missing == MissingInputs(afterParameters.template_files
                               \o afterParameters.parameter_values)
      verification_summary ==
        [afterParameters EXCEPT !.total_collected = Len(template_files) + Len(parameter_values),
                                !.missing_inputs = missing]
  IN Dict(VerificationResult(verification_summary))

\* ------------------------------------------------------------------ create_rule
\* rule.validate_rule_structure: the meta fields and a non-empty task list
validate_rule_structure(rule_structure) ==
  LET errs == (IF rule_structure.meta.name = "" THEN <<"meta.name">> ELSE <<>>)
              \o (IF rule_structure.meta.purpose = "" THEN <<"meta.purpose">> ELSE <<>>)
              \o (IF rule_structure.spec.tasks = <<>> THEN <<"spec.tasks">> ELSE <<>>)
  IN [valid |-> errs = <<>>, errors |-> errs]

\* mutant: the rule is submitted under the default application type
RuleRequest_GenericApp(rule_structure) ==
  [kind |-> "create_rule",
   body |-> [rule_structure EXCEPT !.meta.appType = <<"generic">>,
                                   !.meta.annotateType = <<"generic">>,
                                   !.meta.app = <<"generic">>]]

\* the POST of rule.create_rule_api
RuleRequest(rule_structure) == [kind |-> "create_rule", body |-> rule_structure]

\* mutant: the rule is posted before the validation verdict is looked at
create_rule_PostsFirst(rule_structure, post) ==
  LET validation_result == validate_rule_structure(rule_structure)
      req == RuleRequest(rule_structure)
      result == IF post = "ok"
                THEN [rule_id |-> Str("rule-1"), status |-> Str("created"),
                      timestamp |-> Str("ts")]
                ELSE [status |-> Str("error")]
  IN IF ~validation_result.valid
     THEN DictReq([success |-> FALSE, error |-> "Invalid rule structure",
                   validation_errors |-> validation_result.errors], <<req>>)
     ELSE IF post = "raise" \/ "rule_id" \notin DOMAIN result
     THEN DictReq(Fail("Failed to create rule"), <<req>>)
     ELSE DictReq([success |-> TRUE, rule_id |-> result.rule_id,
                   rule_structure |-> rule_structure,
                   timestamp |-> Get(result, "timestamp"),
                   status |-> GetOr(result, "status", Str("created"))], <<req>>)

create_rule(rule_structure, post) ==
  LET validation_result == validate_rule_structure(rule_structure) IN
  IF ~validation_result.valid
  THEN Dict([success |-> FALSE, error |-> "Invalid rule structure",
             validation_errors |-> validation_result.errors])
  ELSE
    LET req == RuleRequest(rule_structure)
        result == IF post = "ok"
                  THEN [rule_id |-> Str("rule-1"), status |-> Str("created"),
                        timestamp |-> Str("ts")]
                  ELSE [status |-> Str("error")]
    IN IF post = "raise" \/ "rule_id" \notin DOMAIN result
       THEN DictReq(Fail("Failed to create rule"), <<req>>)
       ELSE DictReq([success |-> TRUE, rule_id |-> result.rule_id,
                     rule_structure |-> rule_structure,
                     timestamp |-> Get(result, "timestamp"),
                     status |-> GetOr(result, "status", Str("created"))], <<req>>)

\* ------------------------------------------------------- what a caller passes
Fetch == {"ok", "raise"}
Post == {"ok", "nourl", "raise"}
Seeds == {0, 1}
Times == {"t1", "t2"}
RuleNames == {"MyRule"}
UserContents == {"userJson", "userJsonNoField", "userYaml", "tmplJson", "garbage"}
UserValues == {None, Str("12"), Str("12.5"), Str("yes"), Str("maybe"), Str("csv"), Str("2024-01-31")}
\* a confirmed value is what the user typed or the text of what an earlier
\* call returned
ConfirmedValues == (UserValues \ {None}) \cup {Str("12.0"), Str("True"), Str("31/01/2024")}
Encodings == {"utf-8", "base64", "latin-1"}
FileNames == {<<"a", ".json">>, <<"Transform", "_", "Config", ".json">>}

\* sequences over S of length at most n
RECURSIVE SeqsUpTo(_, _)
SeqsUpTo(S, n) ==
  IF n = 0 THEN {<<>>}
  ELSE LET shorter == SeqsUpTo(S, n - 1)
       IN shorter \cup {Append(q, x) : q \in {r \in shorter : Len(r) = n - 1}, x \in S}

\* a Python dict has each key once
DistinctKeys(items) == \A i, j \in 1..Len(items) : i # j => items[i][1] # items[j][1]

FileIds == {<<"Transform", ".", "Config">>, <<"Transform", ".", "Source">>, <<"Source">>}
ParamIds == {<<"FetchData", ".", "Source">>, <<"Transform", ".", "Source">>,
             <<"A", ".", "B", ".", "N">>}

UploadedUrl == Url(<<"file_", "40213", "_", "Transform", "_", "Config", ".json">>)

FileInfos ==
  { [file_url |-> UploadedUrl, filename |-> <<"Transform", "_", "Config", ".json">>,
     data_type |-> "FILE", format |-> "json"],
    [file_url |-> UploadedUrl, validated |-> TRUE, required |-> FALSE],
    [validated |-> TRUE, data_type |-> "HTTP_CONFIG"] }

ValueInfos ==
  { [value |-> Str("db1"), data_type |-> "STRING", required |-> TRUE],
    [value |-> Str("csv"), required |-> TRUE],
    [data_type |-> "INT", required |-> FALSE] }

FileEntries == {<<id, fi>> : id \in FileIds, fi \in FileInfos}
ParamEntries == {<<id, vi>> : id \in ParamIds, vi \in ValueInfos}

\* the dictionary with the groups given (a group key is present iff keys names it)
CollectedDict(keys, tf, pv) ==
  [k \in keys |-> IF k = "template_files" THEN tf
                  ELSE IF k = "parameter_values" THEN pv ELSE <<>>]

DictItems(E, n) == {q \in SeqsUpTo(E, n) : DistinctKeys(q)}

CollectedInputsOver(FE, PE, n) ==
  UNION { { CollectedDict({"template_files", "parameter_values"}, tf, pv) :
              tf \in {q \in DictItems(FE, a) : Len(q) = a}, pv \in DictItems(PE, n - a) } :
          a \in 0..n }

CollectedInputs ==
  CollectedInputsOver(FileEntries, ParamEntries, MaxEntries)
  \cup { CollectedDict({}, <<>>, <<>>), CollectedDict({"notes"}, <<>>, <<>>) }
  \cup { CollectedDict({"parameter_values"}, <<>>, <<pe>>) : pe \in ParamEntries }
  \cup { CollectedDict({"template_files"}, <<fe>>, <<>>) : fe \in FileEntries }

InputMaps ==
  { EmptyDict,
    [n \in {<<"Source">>} |-> Str("db1")],
    [n \in {<<"Source">>} |-> Str("csv")],
    [n \in {<<"Source">>, <<"Config">>} |->
       IF n = <<"Source">> THEN Str("csv") ELSE UploadedUrl] }

RuleTask(n, alias, app) == [name |-> n, alias |-> alias, appType |-> app]

RuleStructure(name, tasks, inputs, app) ==
  [meta |-> [name |-> name, purpose |-> IF name = "" THEN "" ELSE "purpose",
             appType |-> app, annotateType |-> app, app |-> app],
   spec |-> [inputs |-> inputs, tasks |-> tasks]]

\* the application types a caller may put into the rule's meta
AppTypes == {<<"Slack">>, <<"Slack", "Jira">>, <<"nocredapp">>}

RuleStructures ==
  { RuleStructure(n, ts, im, app) :
      n \in {"", "MyRule"},
      ts \in {<<>>, <<RuleTask(<<"Transform">>, "t1", <<"Slack">>)>>,
              <<RuleTask(<<"FetchData">>, "t1", <<"nocredapp">>),
                RuleTask(<<"Transform">>, "t2", <<"Slack">>)>>},
      im \in InputMaps, app \in AppTypes }

\* ------------------------------------------------------------------- actions
Idle == [op |-> "none", requests |-> <<>>]

\* no listing of control configs is in progress
PagerIdle == [pc |-> "idle"]

\* the calls of the async tools suspended at an await of the event loop, by
\* slot: none at the start
MaxInFlight == 2
NoCall == [pc |-> "free"]
NoCalls == [s \in 1..MaxInFlight |-> NoCall]

\* a tool call: the host invokes one tool at a time and gets its result back
Call(op, args, env, r) ==
  /\ last = Idle
  /\ last' = [op |-> op, args |-> args, env |-> env, rtype |-> r.rtype,
              result |-> r.result, requests |-> r.requests]

\* the invocation is over: nothing of it is kept by the server
Return ==
  last # Idle /\ last' = Idle /\ UNCHANGED <<catalog, selected, confirmed, pager, inflight>>

GetTemplateGuidanceCall(f, t, i) ==
  Call("get_template_guidance", [task_name |-> t, input_name |-> i], [fetch |-> f],
       get_template_guidance(catalog, f, t, i))

CollectTemplateInputCall(f, t, i, c) ==
  Call("collect_template_input", [task_name |-> t, input_name |-> i, user_content |-> c],
       [fetch |-> f], collect_template_input(catalog, f, t, i, c))

ConfirmTemplateInputCall(f, rn, t, i, c, po, sd, now) ==
  Call("confirm_template_input",
       [rule_name |-> rn, task_name |-> t, input_name |-> i, confirmed_content |-> c],
       [fetch |-> f, post |-> po, seed |-> sd, now |-> now],
       confirm_template_input(catalog, f, rn, t, i, c, po, sd, now))

UploadFileCall(rn, fn, c, enc, po, sd) ==
  Call("upload_file",
       [rule_name |-> rn, file_name |-> fn, content |-> c, content_encoding |-> enc],
       [post |-> po, seed |-> sd], upload_file(rn, fn, c, enc, po, sd))

CollectParameterInputCall(f, t, i, v, d) ==
  Call("collect_parameter_input",
       [task_name |-> t, input_name |-> i, user_value |-> v, use_default |-> d],
       [fetch |-> f], collect_parameter_input(catalog, f, t, i, v, d))

ConfirmParameterInputCall(f, t, i, v, ct, now) ==
  Call("confirm_parameter_input",
       [task_name |-> t, input_name |-> i, confirmed_value |-> v, confirmation_type |-> ct],
       [fetch |-> f, now |-> now], confirm_parameter_input(catalog, f, t, i, v, ct, now))

PrepareOverviewCall(f, sel) ==
  Call("prepare_input_collection_overview", [selected_tasks |-> sel], [fetch |-> f],
       prepare_input_collection_overview(catalog, f, sel))

VerifyCollectedInputsCall(ci) ==
  Call("verify_collected_inputs", [collected_inputs |-> ci], [fetch |-> "ok"],
       verify_collected_inputs(ci))

CreateRuleCall(rs, po) ==
  Call("create_rule", [rule_structure |-> rs], [post |-> po], create_rule(rs, po))

Memoryless == UNCHANGED <<catalog, selected, confirmed, pager, inflight>>

GetTemplateGuidance ==
  /\ last = Idle
  /\ \E f \in Fetch, t \in TaskNames, i \in InputNames :
    GetTemplateGuidanceCall(f, t, i) /\ Memoryless

CollectTemplateInput ==
  /\ last = Idle
  /\ \E f \in Fetch, t \in TaskNames, i \in InputNames, c \in UserContents :
    CollectTemplateInputCall(f, t, i, c) /\ Memoryless

ConfirmTemplateInput ==
  /\ last = Idle
  /\ \E f \in Fetch, rn \in RuleNames, t \in TaskNames, i \in InputNames,
     c \in {"userJson", "userYaml"}, po \in Post, sd \in Seeds, now \in Times :
    ConfirmTemplateInputCall(f, rn, t, i, c, po, sd, now) /\ Memoryless

UploadFile ==
  /\ last = Idle
  /\ \E rn \in RuleNames, fn \in FileNames, c \in {"userJson", "userYaml"},
     enc \in Encodings, po \in Post, sd \in Seeds :
    UploadFileCall(rn, fn, c, enc, po, sd) /\ Memoryless

CollectParameterInput ==
  /\ last = Idle
  /\ \E f \in Fetch, t \in TaskNames, i \in InputNames, v \in UserValues, d \in BOOLEAN :
    CollectParameterInputCall(f, t, i, v, d) /\ Memoryless

ConfirmParameterInput ==
  /\ last = Idle
  /\ \E f \in Fetch, t \in TaskNames, i \in InputNames, v \in ConfirmedValues,
     ct \in {"default", "final"}, now \in Times :
    ConfirmParameterInputCall(f, t, i, v, ct, now) /\ Memoryless

GetTasksByCategory ==
  /\ last = Idle
  /\ \E f \in Fetch, category \in {"primitive", "aws"} :
       Call("get_tasks_by_category", [category |-> category], [fetch |-> f],
            get_tasks_by_category(catalog, f, category))
  /\ Memoryless

PrepareOverview ==
  /\ last = Idle
  /\ \E f \in Fetch, sel \in SeqsUpTo(TaskNames, MaxSelected) :
    PrepareOverviewCall(f, sel) /\ Memoryless

VerifyCollectedInputs ==
  /\ last = Idle
  /\ \E ci \in CollectedInputs : VerifyCollectedInputsCall(ci) /\ Memoryless

CreateRule ==
  /\ last = Idle
  /\ \E rs \in RuleStructures, po \in Post : CreateRuleCall(rs, po) /\ Memoryless

Init ==
  /\ catalog \in Catalogs
  /\ last = Idle
  /\ selected = <<>>
  /\ confirmed = {}
  /\ pager = PagerIdle
  /\ inflight = NoCalls

Next ==
  \/ GetTemplateGuidance
  \/ CollectTemplateInput
  \/ ConfirmTemplateInput
  \/ UploadFile
  \/ CollectParameterInput
  \/ ConfirmParameterInput
  \/ PrepareOverview
  \/ VerifyCollectedInputs
  \/ CreateRule
  \/ GetTasksByCategory
  \/ Return

Spec == Init /\ [][Next]_vars

\* ------------------------------------------------------- a caller with memory
\* The server keeps nothing between calls: what was selected and what was
\* confirmed lives with the caller.  Here the caller remembers the tasks of
\* its last successful overview and, per input, the value its last successful
\* confirm call returned; it may still pass anything to verify and create.
FlowCatalog == <<TFetchData, TTransform>>
FlowTaskNames == {<<"FetchData">>, <<"Transform">>}
FlowInputNames == {<<"Source">>, <<"Config">>}
FlowValues == {Str("db1"), Str("csv")}

Remember(id, v) == {p \in confirmed : p[1] # id} \cup {<<id, v>>}

FlowPrepareOverview ==
  /\ last = Idle
  /\ \E sel \in SeqsUpTo(FlowTaskNames, MaxSelected) :
       /\ PrepareOverviewCall("ok", sel)
       /\ selected' = IF last'.result.success THEN sel ELSE selected
       /\ UNCHANGED <<catalog, confirmed, pager, inflight>>

FlowCollectParameterInput ==
  /\ last = Idle
  /\ \E t \in FlowTaskNames, i \in FlowInputNames, v \in FlowValues \cup {None}, d \in BOOLEAN :
       CollectParameterInputCall("ok", t, i, v, d) /\ Memoryless

FlowConfirmParameterInput ==
  /\ last = Idle
  /\ \E t \in FlowTaskNames, i \in FlowInputNames, v \in FlowValues :
       /\ ConfirmParameterInputCall("ok", t, i, v, "final", "t1")
       /\ confirmed' = IF last'.result.success
                       THEN Remember(UniqueInputId(t, i), last'.result.stored_value)
                       ELSE confirmed
       /\ UNCHANGED <<catalog, selected, pager, inflight>>

FlowConfirmTemplateInput ==
  /\ last = Idle
  /\ \E t \in FlowTaskNames, i \in FlowInputNames, po \in {"ok", "nourl"} :
       /\ ConfirmTemplateInputCall("ok", "MyRule", t, i, "userJson", po, 0, "t1")
       /\ confirmed' = IF ~last'.result.success THEN confirmed
                       ELSE IF last'.result.storage_type = "FILE"
                       THEN Remember(UniqueInputId(t, i), last'.result.file_url)
                       ELSE Remember(UniqueInputId(t, i), Str(last'.result.stored_content))
       /\ UNCHANGED <<catalog, selected, pager, inflight>>

FlowFileEntries ==
  { <<<<"Transform", ".", "Config">>, fi>> :
      fi \in { [file_url |-> UploadedUrl, filename |-> <<"Transform", "_", "Config", ".json">>,
                data_type |-> "FILE", format |-> "json", validated |-> TRUE],
               [file_url |-> Url(<<"never", "uploaded">>), validated |-> TRUE],
               [file_url |-> UploadedUrl, filename |-> <<"Transform", "_", "Config", ".json">>,
                data_type |-> "FILE", format |-> "json"] } }

FlowParamEntries ==
  { <<id, vi>> :
      id \in {<<"FetchData", ".", "Source">>, <<"Transform", ".", "Source">>},
      vi \in { [value |-> Str("db1"), data_type |-> "STRING", required |-> TRUE],
               [value |-> Str("csv"), data_type |-> "STRING", required |-> TRUE],
               [value |-> None, data_type |-> "STRING", required |-> TRUE] } }

FlowVerifyCollectedInputs ==
  /\ last = Idle
  /\ \E ci \in CollectedInputsOver(FlowFileEntries, FlowParamEntries, MaxEntries) :
       VerifyCollectedInputsCall(ci) /\ Memoryless

FlowInputMaps ==
  { [n \in ns |-> IF n = <<"Source">> THEN src ELSE cfg] :
      ns \in {{<<"Source">>}, {<<"Source">>, <<"Config">>}},
      src \in FlowValues, cfg \in {UploadedUrl, Url(<<"never", "uploaded">>)} }

FlowCreateRule ==
  /\ last = Idle
  /\ \E im \in FlowInputMaps, po \in {"ok", "raise"} :
       CreateRuleCall(RuleStructure("MyRule", <<RuleTask(<<"Transform">>, "t1", <<"Slack">>)>>,
                                    im, <<"Slack">>), po)
       /\ Memoryless

FlowInit ==
  /\ catalog = FlowCatalog
  /\ last = Idle
  /\ selected = <<>>
  /\ confirmed = {}
  /\ pager = PagerIdle
  /\ inflight = NoCalls

FlowNext ==
  \/ FlowPrepareOverview
  \/ FlowCollectParameterInput
  \/ FlowConfirmParameterInput
  \/ FlowConfirmTemplateInput
  \/ FlowVerifyCollectedInputs
  \/ FlowCreateRule
  \/ Return

SpecFlow == FlowInit /\ [][FlowNext]_vars

\* ------------------------------------------ list_assessment_control_configs
\* The listing fetches the controls of an assessment page by page. An
\* iteration of its while loop sends the GET of page cur_page and is
\* suspended at the await until the answer comes; the handling of the answer
\* is a later step.
max_pages == 10
page_size == 100

\* the largest TotalPage a backend answer reports
MaxTotalPage == 12

AssessmentIds == {"", " ", "plan1"}

\* not assessmentId or not str(assessmentId).strip()
IsBlank(assessmentId) == assessmentId \in {"", " "}

\* the items of a page: a control with id and name, or an item without id
PageItems == {<<>>, <<"control">>, <<"noid">>, <<"control", "noid">>}

\* what the GET of a page can answer when the loop is at page p
PageOutputs(p) ==
  {[kind |-> "str"], [kind |-> "error"], [kind |-> "noitems"]}
    \cup {[kind |-> "items", items |-> its, TotalPage |-> tp] :
            its \in PageItems, tp \in {<<"absent">>, <<"bad">>, <<"int", 0>>, <<"int", p>>,
                                      <<"int", p + 1>>, <<"int", MaxTotalPage>>}}

\* mutant: one page more than max_pages is allowed
LoopContinues_OneMore(has_next, cur_page) == has_next /\ cur_page <= max_pages + 1

\* while has_next and cur_page <= max_pages
LoopContinues(has_next, cur_page) == has_next /\ cur_page <= max_pages

\* the controls abstracted from the items of page p (items with id and name)
RECURSIVE Abstracted(_, _)
Abstracted(items, p) ==
  IF items = <<>> THEN <<>>
  ELSE (IF Head(items) = "control" THEN <<[id |-> p, name |-> "control"]>> ELSE <<>>)
       \o Abstracted(Tail(items), p)

\* total_pages = int(output.get("TotalPage", 0)) or 1
TotalPages(tp) ==
  IF tp = <<"absent">> THEN 1 ELSE IF tp[2] = 0 THEN 1 ELSE tp[2]

PagerSuccess(pg) ==
  [pg EXCEPT !.pc = "returned",
             !.result = [success |-> TRUE, controls |-> pg.all_controls,
                         totalCount |-> Len(pg.all_controls)]]

PagerFailure(pg, err) ==
  [pg EXCEPT !.pc = "returned", !.result = [success |-> FALSE, error |-> err]]

\* the locals of a call at the first test of the loop condition
NewListing(assessmentId) ==
  [pc |-> "loop", assessmentId |-> assessmentId, cur_page |-> 1, has_next |-> TRUE,
   all_controls |-> <<>>, requests |-> <<>>, result |-> [success |-> FALSE, error |-> "none"]]

\* the GET of page cur_page is sent and the call is suspended at the await
Sent(pg) ==
  [pg EXCEPT !.pc = "await",
             !.requests = Append(@, [page |-> pg.cur_page, page_size |-> page_size,
                                     plan_id |-> pg.assessmentId])]

\* the rest of the iteration once the GET has answered output: the call is
\* back at the loop test or has returned. The controls of the page are
\* appended before int(TotalPage) is evaluated.
Handled(pg, output) ==
  LET back == [pg EXCEPT !.pc = "loop"]
  IN IF output.kind \in {"str", "error"}
     THEN IF pg.cur_page = 1 THEN PagerFailure(back, "Failed to fetch controls")
          ELSE PagerSuccess([back EXCEPT !.has_next = FALSE])
     ELSE IF output.kind = "items"
     THEN IF output.items = <<>> THEN PagerSuccess(back)
          ELSE LET added == [back EXCEPT !.all_controls =
                                           @ \o Abstracted(output.items, pg.cur_page)]
               IN IF output.TotalPage = <<"bad">>
                  THEN PagerFailure(added, "Unexpected error listing assessment controls")
                  ELSE [added EXCEPT !.cur_page = @ + 1,
                                     !.has_next = pg.cur_page + 1 <= TotalPages(output.TotalPage)]
     ELSE [back EXCEPT !.has_next = FALSE]

\* the call, up to the first test of the loop condition
Started(assessmentId) ==
  IF IsBlank(assessmentId)
  THEN PagerFailure(NewListing(assessmentId), "assessmentId is mandatory")
  ELSE NewListing(assessmentId)

\* a call runs on without a break until its next await or its return
RunToAwait(pg) ==
  IF pg.pc # "loop" THEN pg
  ELSE IF LoopContinues(pg.has_next, pg.cur_page) THEN Sent(pg) ELSE PagerSuccess(pg)

ListStart ==
  /\ pager = PagerIdle
  /\ last = Idle
  /\ \E assessmentId \in AssessmentIds : pager' = Started(assessmentId)
  /\ UNCHANGED <<catalog, last, selected, confirmed, inflight>>

\* the loop condition holds: the GET of page cur_page is sent
FetchPage ==
  /\ pager.pc = "loop"
  /\ LoopContinues(pager.has_next, pager.cur_page)
  /\ pager' = Sent(pager)
  /\ UNCHANGED <<catalog, last, selected, confirmed, inflight>>

\* the await returns with the answer of the backend
PageAnswered ==
  /\ pager.pc = "await"
  /\ \E output \in PageOutputs(pager.cur_page) : pager' = Handled(pager, output)
  /\ UNCHANGED <<catalog, last, selected, confirmed, inflight>>

\* the loop condition is false: the controls found are returned
LoopExit ==
  /\ pager.pc = "loop"
  /\ ~LoopContinues(pager.has_next, pager.cur_page)
  /\ pager' = PagerSuccess(pager)
  /\ UNCHANGED <<catalog, last, selected, confirmed, inflight>>

\* the task of the listing is cancelled at its await: the request stays
\* sent, the call handles no answer and returns nothing
PageCancelled ==
  /\ pager.pc = "await"
  /\ pager' = [pager EXCEPT !.pc = "cancelled"]
  /\ UNCHANGED <<catalog, last, selected, confirmed, inflight>>

\* the host has the result or the cancellation: nothing of the call is kept
PagerReturn ==
  /\ pager.pc \in {"returned", "cancelled"}
  /\ pager' = PagerIdle
  /\ UNCHANGED <<catalog, last, selected, confirmed, inflight>>

PagesInit ==
  /\ catalog = <<>>
  /\ last = Idle
  /\ selected = <<>>
  /\ confirmed = {}
  /\ pager = PagerIdle
  /\ inflight = NoCalls

PagesNext ==
  \/ ListStart
  \/ FetchPage
  \/ PageAnswered
  \/ PageCancelled
  \/ LoopExit
  \/ PagerReturn

\* a call in progress goes on: the await of a task that is not cancelled returns
SpecPages == PagesInit /\ [][PagesNext]_vars /\ WF_vars(FetchPage \/ PageAnswered \/ LoopExit)

\* --------------------------------------------- the confirm-gated assistant tools
\* attach_citation_to_control_config, create_sql_rule_and_attach and
\* create_control_config_note: each call validates its mandatory arguments,
\* answers a preview unless confirm is set, and otherwise posts.
Texts == {"", " ", "v"}
NameLists == {<<>>, <<"v">>, <<" ">>}

\* str(x).strip()
Strip(x) == IF x = " " THEN "" ELSE x

\* not x or not str(x).strip()
BlankText(x) == x = "" \/ Strip(x) = ""

\* not xs or not isinstance(xs, list) or len(xs) == 0
EmptyList(xs) == xs = <<>>

StripAll(xs) == [k \in 1..Len(xs) |-> Strip(xs[k])]

\* [str(name).strip() for name in xs if name and str(name).strip()]
RECURSIVE StripNonBlank(_)
StripNonBlank(xs) ==
  IF xs = <<>> THEN <<>>
  ELSE (IF BlankText(Head(xs)) THEN <<>> ELSE <<Strip(Head(xs))>>) \o StripNonBlank(Tail(xs))

\* what the backend may do with a POST: a string, a dictionary with
\* "Message" or "error", a usable answer, another type, or an exception
PostOutcomes == {"ok", "str", "message", "error", "other", "raise"}

\* what the backend answers to the CCF-id sync request: a dict without error
\* fields, an error text, a dict with Message or error, or an exception
SyncOutcomes == {"ok", "str", "message", "raise"}

\* the result of an attach whose sync request failed, were it to fail the call
AfterSync_FailsOnError(result, sync) ==
  IF sync = "ok" THEN result
  ELSE [result EXCEPT !.result = Fail("CCF ID sync failed")]

\* the sync outcome is logged, as information or as a warning, and the
\* result of the attach is returned as it was
AfterSync(result, sync) == result

\* mutant: no call is taken as a preview request
IsPreview_Never(confirm) == FALSE

\* if not confirm
IsPreview(confirm) == ~confirm

PostRequest(url, payload) == [kind |-> url, method |-> "POST", payload |-> payload]

attach_citation_to_control_config(assessmentId, controlId, authorityDocument, controlIdsInAuthorityDocument, sortId, controlNames, confirm, post, sync) ==
  IF BlankText(assessmentId) THEN Dict(Fail("assessmentId is mandatory")) ELSE
  IF BlankText(controlId) THEN Dict(Fail("controlId is mandatory")) ELSE
  IF BlankText(authorityDocument) THEN Dict(Fail("authorityDocument is mandatory")) ELSE
  IF EmptyList(controlIdsInAuthorityDocument)
  THEN Dict(Fail("controlIdsInAuthorityDocument must be a non-empty list")) ELSE
  IF BlankText(sortId) THEN Dict(Fail("sortId is mandatory")) ELSE
  IF EmptyList(controlNames) THEN Dict(Fail("controlNames must be a non-empty list")) ELSE
  LET assessment_id == Strip(assessmentId)
      control_id == Strip(controlId)
  IN IF IsPreview(confirm)
     THEN Dict([success |-> TRUE, assessmentId |-> assessment_id, controlId |-> control_id,
                citationDetails |-> [authorityDocument |-> Strip(authorityDocument),
                                     controlIdsInAuthorityDocument |-> controlIdsInAuthorityDocument,
                                     sortId |-> Strip(sortId), controlNames |-> controlNames],
                next_step |-> "re-run with confirm=True",
                next_action |-> "Await for user confirmation"])
     ELSE
       LET payload == [authorityDocument |-> Strip(authorityDocument),
                       planControlCitations |->
                         <<[planControlID |-> control_id,
                            controlsInAuthorityDocument |-> StripAll(controlIdsInAuthorityDocument),
                            sortID |-> Strip(sortId),
                            controlNames |-> StripAll(controlNames)]>>]
           req == PostRequest("plan-control-citations/batch", payload)
           sync_req == PostRequest("plans/sync-ccfid",
                                   [planID |-> assessment_id,
                                    authorityDocument |-> Strip(authorityDocument),
                                    updateControlLinking |-> TRUE, controlId |-> control_id])
       IN CASE post = "raise" ->
                 DictReq(Fail("Unexpected error attaching citation to control"), <<req>>)
            [] post = "str" -> DictReq(Fail("backend error text"), <<req>>)
            [] post = "message" -> DictReq(Fail("backend Message"), <<req>>)
            [] post = "other" -> DictReq(Fail("Unexpected response type"), <<req>>)
            [] OTHER ->
                 AfterSync(
                   DictReq([success |-> TRUE,
                            citations |-> IF post = "ok"
                                          THEN <<[id |-> "c1", planControlID |-> control_id]>>
                                          ELSE <<>>,
                            next_action |-> "fetch control source summary"],
                           <<req, sync_req>>),
                   sync)

create_sql_rule_and_attach(controlConfigId, sqlrule, referedEvidenceNames, newEvidenceName, confirm, post) ==
  IF BlankText(controlConfigId) THEN Dict(Fail("controlConfigId is mandatory")) ELSE
  IF BlankText(sqlrule) THEN Dict(Fail("sqlrule is mandatory")) ELSE
  IF EmptyList(referedEvidenceNames)
  THEN Dict(Fail("referedEvidenceNames must be a non-empty list")) ELSE
  IF BlankText(newEvidenceName) THEN Dict(Fail("newEvidenceName is mandatory")) ELSE
  LET payload == [sqlQuery |-> Strip(sqlrule), evidenceName |-> Strip(newEvidenceName),
                  referedEvidenceNames |-> StripNonBlank(referedEvidenceNames)]
  IN IF IsPreview(confirm)
     THEN Dict([success |-> TRUE, controlConfigId |-> Strip(controlConfigId),
                sqlQuery |-> payload.sqlQuery, newEvidenceName |-> payload.evidenceName,
                referedEvidenceNames |-> payload.referedEvidenceNames,
                next_step |-> "re-run with confirm=True"])
     ELSE
       LET req == PostRequest(<<"plan-controls", Strip(controlConfigId), "create-sql-rule-evidence">>,
                              payload)
       IN CASE post = "raise" -> DictReq(Fail("Unexpected error creating SQL rule"), <<req>>)
            [] post = "str" -> DictReq(Fail("backend error text"), <<req>>)
            [] post = "message" -> DictReq(Fail("backend Message"), <<req>>)
            [] post = "error" -> DictReq(Fail("backend error"), <<req>>)
            [] post = "other" -> DictReq(Fail("Unexpected response type"), <<req>>)
            [] OTHER -> DictReq([success |-> TRUE, ruleId |-> "r1", evidenceId |-> "e1",
                                 next_step |-> "add documentation notes"], <<req>>)

create_control_config_note(controlConfigId, assessmentId, notes, topic, confirm, post) ==
  IF BlankText(controlConfigId) THEN Dict(Fail("controlConfigId is mandatory")) ELSE
  IF BlankText(assessmentId) THEN Dict(Fail("assessmentId is mandatory")) ELSE
  IF BlankText(notes) THEN Dict(Fail("notes content is mandatory")) ELSE
  LET payload == [topic |-> IF topic # "" THEN Strip(topic) ELSE "SQL Rule Documentation",
                  notes |-> Strip(notes), planId |-> Strip(assessmentId),
                  planControlID |-> Strip(controlConfigId)]
  IN IF IsPreview(confirm)
     THEN Dict([success |-> TRUE, controlConfigId |-> payload.planControlID,
                topic |-> payload.topic, notes |-> payload.notes,
                next_step |-> "re-run with confirm=True"])
     ELSE
       LET req == PostRequest(<<"plan-controls", Strip(controlConfigId), "notes">>, payload)
       IN CASE post = "raise" ->
                 DictReq(Fail("Unexpected error creating control config note"), <<req>>)
            [] post = "ok" -> DictReq([success |-> TRUE, message |-> "Note created successfully"],
                                      <<req>>)
            [] post = "message" -> DictReq(Fail("backend Message"), <<req>>)
            [] post = "error" -> DictReq(Fail("backend error"), <<req>>)
            [] OTHER -> DictReq(Fail("Failed to create note: HTTP status"), <<req>>)

\* the largest page size fetch_assessment_runs accepts, and the largest page
\* and page size a caller passes
MaxPageSize == 10
MaxPageArg == 2
MaxPageSizeArg == 11

\* the runs the backend holds for an assessment: one well-formed, one
\* without planId
RunItems == <<[id |-> "r1", planId |-> "v", name |-> "run"], [id |-> "r2", name |-> "orphan"]>>

\* fetch_assessment_runs: get is the backend's answer to the GET, a
\* dictionary with items, an error text, or an exception
fetch_assessment_runs(id, page, pageSize, get) ==
  LET req == [kind |-> "plan-instances", method |-> "GET",
              payload |-> [fields |-> "basic", page |-> page, page_size |-> pageSize,
                           plan_id |-> id]]
      assessmentRuns ==
        SelectSeq(RunItems, LAMBDA item : "planId" \in DOMAIN item /\ "id" \in DOMAIN item)
  IN IF get = "raise"
     THEN [rtype |-> "str", result |-> "Facing internal error", requests |-> <<req>>]
     ELSE
       CASE page = 0 /\ pageSize = 0 ->
              [rtype |-> "str", result |-> "use pagination", requests |-> <<req>>]
         [] ~(page = 0 /\ pageSize > 0) /\ ~(page > 0 /\ pageSize = 0)
              /\ pageSize > MaxPageSize ->
              [rtype |-> "str", result |-> "max page size is 10", requests |-> <<req>>]
         [] OTHER ->
              IF get = "str"
              THEN [rtype |-> "str", result |-> "backend error text", requests |-> <<req>>]
              ELSE [rtype |-> "list",
                    result |-> [k \in 1..Len(assessmentRuns) |->
                                  [id |-> assessmentRuns[k].id,
                                   name |-> assessmentRuns[k].name,
                                   assessmentId |-> assessmentRuns[k].planId]],
                    requests |-> <<req>>]

\* the names bound in the module of the assistant tools: its imports and its
\* tool functions; a function reads any other non-local name with a NameError
ModuleGlobals ==
  {"json", "traceback", "base64", "asyncio", "List", "Tuple", "utils", "logger", "mcp",
   "constants", "yaml", "assessment_vo", "workflow_vo", "UniqueNodeDataVO",
   "ControlSourceSummaryResponseVO", "ControlSourceSummaryVO",
   "create_assessment", "list_assessment_control_configs",
   "attach_citation_to_control_config", "create_sql_rule_and_attach",
   "create_control_config_note"}

\* the id of the first category whose trimmed name is category_name, or None
RECURSIVE FindCategory(_, _)
FindCategory(items, category_name) ==
  IF items = <<>> THEN None
  ELSE IF Head(items).name # "" /\ Strip(Head(items).name) = category_name
       THEN Str(Head(items).id)
       ELSE FindCategory(Tail(items), category_name)

\* create_assessment: yaml is the parsed document (or its being empty or
\* unparsable), categories the backend's category list, get, cpost and apost
\* the backend's answers to the three requests
create_assessment(yaml, categories, get, cpost, apost) ==
  IF yaml.kind = "empty" THEN Dict(Fail("YAML content is empty")) ELSE
  IF yaml.kind = "invalid" THEN Dict(Fail("Invalid YAML")) ELSE
  IF BlankText(yaml.name) THEN Dict(Fail("Assessment name not found in metadata.name")) ELSE
  IF BlankText(yaml.categoryName)
  THEN Dict(Fail("categoryName is required in metadata.categoryName")) ELSE
  LET category_name == Strip(yaml.categoryName)
      get_req == [kind |-> "assessment-categories", method |-> "GET", payload |-> <<>>]
  IN
  \* line 76 reads ctx to build the arguments of the GET
  IF "ctx" \notin ModuleGlobals THEN Dict(Fail("Unable to resolve or create category")) ELSE
  IF get = "raise" THEN DictReq(Fail("Unable to resolve or create category"), <<get_req>>) ELSE
  IF get # "list" THEN DictReq(Fail("Failed to fetch assessment categories"), <<get_req>>) ELSE
  LET found == FindCategory(categories, category_name)
      cat_req == PostRequest("assessment-categories", [name |-> category_name])
      reqs == IF found = None THEN <<get_req, cat_req>> ELSE <<get_req>>
  IN
  IF found = None /\ cpost = "raise"
  THEN DictReq(Fail("Unable to resolve or create category"), reqs) ELSE
  IF found = None /\ cpost = "message" THEN DictReq(Fail("backend Message"), reqs) ELSE
  IF found = None /\ cpost # "ok" THEN DictReq(Fail("Failed to create category"), reqs) ELSE
  LET category_id == IF found = None THEN Str("new") ELSE found
      req == PostRequest("assessments",
                         [name |-> Strip(yaml.name), fileType |-> "yaml",
                          fileContent |-> B64("yaml"), categoryId |-> category_id])
  IN CASE apost = "raise" ->
            DictReq(Fail("Unexpected error creating assessment"), reqs \o <<req>>)
       [] apost = "str" -> DictReq(Fail("backend error text"), reqs \o <<req>>)
       [] apost = "message" -> DictReq(Fail("backend Message"), reqs \o <<req>>)
       [] OTHER -> DictReq([success |-> TRUE, data |-> [id |-> "a1"],
                            categoryName |-> category_name], reqs \o <<req>>)

CreateAssessment ==
  /\ last = Idle
  /\ \E y \in {[kind |-> "empty"], [kind |-> "invalid"]}
                \cup {[kind |-> "doc", name |-> n, categoryName |-> c] :
                        n \in Texts, c \in Texts},
        cs \in {<<>>, <<[id |-> "k1", name |-> "v"]>>,
                <<[id |-> "k1", name |-> " "], [id |-> "k2", name |-> "v"]>>},
        g \in {"list", "str"}, cp \in {"ok", "message"}, ap \in {"ok", "message", "raise"} :
       Call("create_assessment", [yaml_content |-> y],
            [categories |-> cs, get |-> g, cpost |-> cp, apost |-> ap],
            create_assessment(y, cs, g, cp, ap))
  /\ Memoryless

\* a call of a tool with one await runs to it: r is its result when the
\* backend answers well. A call that sends nothing returns at once;
\* otherwise its request is sent and the call is suspended in slot s.
Begin(s, op, args, r) ==
  /\ last = Idle
  /\ inflight[s] = NoCall
  /\ IF r.requests = <<>>
     THEN /\ Call(op, args, [post |-> "unasked"], r)
          /\ UNCHANGED inflight
     ELSE /\ inflight' = [inflight EXCEPT ![s] = [pc |-> "await", op |-> op, args |-> args,
                                                  requests |-> r.requests]]
          /\ UNCHANGED last
  /\ UNCHANGED <<catalog, selected, confirmed, pager>>

\* the GET is sent before the pagination checks: every call is suspended
FetchAssessmentRuns ==
  /\ last = Idle
  /\ inflight = NoCalls
  /\ \E page \in 0..MaxPageArg, pageSize \in 0..MaxPageSizeArg :
       Begin(1, "fetch_assessment_runs", [id |-> "v", page |-> page, pageSize |-> pageSize],
             fetch_assessment_runs("v", page, pageSize, "items"))

\* the await returns with the answer of the backend (or the GET raises)
FetchAssessmentRunsAnswered ==
  \E s \in 1..MaxInFlight :
    /\ inflight[s].pc = "await"
    /\ inflight[s].op = "fetch_assessment_runs"
    /\ \E g \in {"items", "str", "raise"} :
         LET a == inflight[s].args
         IN Call("fetch_assessment_runs", a, [get |-> g],
                 fetch_assessment_runs(a.id, a.page, a.pageSize, g))
    /\ inflight' = [inflight EXCEPT ![s] = NoCall]
    /\ UNCHANGED <<catalog, selected, confirmed, pager>>

\* the result of the call with the arguments args when the backend answers
\* the batch request with post and the sync request with sync
AttachResult(args, post, sync) == attach_citation_to_control_config(args.assessmentId, args.controlId, args.authorityDocument, args.controlIdsInAuthorityDocument, args.sortId, args.controlNames, args.confirm, post, sync)

\* the call runs to its first await: a validation failure or the preview is
\* returned at once; otherwise the batch request is sent and the call is
\* suspended in slot s.
AttachBegin(s, args) ==
  /\ last = Idle
  /\ inflight[s] = NoCall
  /\ LET r == AttachResult(args, "ok", "ok")
     IN IF r.requests = <<>>
        THEN /\ Call("attach_citation_to_control_config", args,
                     [post |-> "unasked", sync |-> "unasked"], r)
             /\ UNCHANGED inflight
        ELSE /\ inflight' = [inflight EXCEPT ![s] =
                               [pc |-> "batch", op |-> "attach_citation_to_control_config",
                                args |-> args, requests |-> <<r.requests[1]>>]]
             /\ UNCHANGED last
  /\ UNCHANGED <<catalog, selected, confirmed, pager>>

\* a host that starts an attach when no other call is under way
AttachCitation ==
  /\ last = Idle
  /\ inflight = NoCalls
  /\ \E a \in Texts, c \in Texts, d \in {"", "v"}, ids \in NameLists, so \in {" ", "v"},
        ns \in NameLists, cf \in BOOLEAN :
       AttachBegin(1, [assessmentId |-> a, controlId |-> c, authorityDocument |-> d,
                       controlIdsInAuthorityDocument |-> ids, sortId |-> so,
                       controlNames |-> ns, confirm |-> cf])

\* the backend answers the batch request of a suspended call (or the
\* request raises): the call returns its failure, or sends the sync request
\* and is suspended again
AttachBatchAnswered ==
  \E s \in 1..MaxInFlight :
    /\ inflight[s].pc = "batch"
    /\ \E po \in PostOutcomes :
         LET call == inflight[s]
             r == AttachResult(call.args, po, "ok")
         IN IF Len(r.requests) = 2
            THEN /\ inflight' = [inflight EXCEPT ![s] = [call EXCEPT !.pc = "sync",
                                                                     !.requests = r.requests]
                                                        @@ [post |-> po]]
                 /\ UNCHANGED last
            ELSE /\ Call("attach_citation_to_control_config", call.args,
                         [post |-> po, sync |-> "unasked"], r)
                 /\ inflight' = [inflight EXCEPT ![s] = NoCall]
    /\ UNCHANGED <<catalog, selected, confirmed, pager>>

\* the backend answers the sync request (or the request raises): the call
\* returns its result
AttachSyncAnswered ==
  \E s \in 1..MaxInFlight :
    /\ inflight[s].pc = "sync"
    /\ \E sy \in SyncOutcomes :
         Call("attach_citation_to_control_config", inflight[s].args,
              [post |-> inflight[s].post, sync |-> sy],
              AttachResult(inflight[s].args, inflight[s].post, sy))
    /\ inflight' = [inflight EXCEPT ![s] = NoCall]
    /\ UNCHANGED <<catalog, selected, confirmed, pager>>

\* a host that starts the tool when no other call is under way
CreateSqlRuleAndAttach ==
  /\ last = Idle
  /\ inflight = NoCalls
  /\ \E c \in Texts, q \in Texts, ev \in NameLists, n \in Texts, cf \in BOOLEAN :
       Begin(1, "create_sql_rule_and_attach",
             [controlConfigId |-> c, sqlrule |-> q, referedEvidenceNames |-> ev,
              newEvidenceName |-> n, confirm |-> cf],
             create_sql_rule_and_attach(c, q, ev, n, cf, "ok"))

\* the await returns with the answer of the backend (or the POST raises)
CreateSqlRuleAnswered ==
  \E s \in 1..MaxInFlight :
    /\ inflight[s].pc = "await"
    /\ inflight[s].op = "create_sql_rule_and_attach"
    /\ \E po \in PostOutcomes :
         LET a == inflight[s].args
         IN Call("create_sql_rule_and_attach", a, [post |-> po],
                 create_sql_rule_and_attach(a.controlConfigId, a.sqlrule,
                                            a.referedEvidenceNames, a.newEvidenceName,
                                            a.confirm, po))
    /\ inflight' = [inflight EXCEPT ![s] = NoCall]
    /\ UNCHANGED <<catalog, selected, confirmed, pager>>

\* a host that starts the tool when no other call is under way
CreateControlConfigNote ==
  /\ last = Idle
  /\ inflight = NoCalls
  /\ \E c \in Texts, a \in Texts, n \in Texts, t \in {"", "v"}, cf \in BOOLEAN :
       Begin(1, "create_control_config_note",
             [controlConfigId |-> c, assessmentId |-> a, notes |-> n, topic |-> t,
              confirm |-> cf],
             create_control_config_note(c, a, n, t, cf, "ok"))

\* the await returns with the answer of the backend (or the POST raises)
CreateNoteAnswered ==
  \E s \in 1..MaxInFlight :
    /\ inflight[s].pc = "await"
    /\ inflight[s].op = "create_control_config_note"
    /\ \E po \in PostOutcomes :
         LET a == inflight[s].args
         IN Call("create_control_config_note", a, [post |-> po],
                 create_control_config_note(a.controlConfigId, a.assessmentId, a.notes,
                                            a.topic, a.confirm, po))
    /\ inflight' = [inflight EXCEPT ![s] = NoCall]
    /\ UNCHANGED <<catalog, selected, confirmed, pager>>

\* the task of a suspended call is cancelled at its await: CancelledError is
\* no Exception, so the call returns nothing and sends nothing more
Cancelled ==
  \E s \in 1..MaxInFlight :
    /\ inflight[s] # NoCall
    /\ inflight' = [inflight EXCEPT ![s] = NoCall]
    /\ UNCHANGED <<catalog, last, selected, confirmed, pager>>

\* a listing that shares the event loop, with the locals pg after a step:
\* it has returned to the host or is suspended in slot s
ListOnLoop(s, args, pg) ==
  IF pg.pc = "returned"
  THEN /\ Call("list_assessment_control_configs", args, [get |-> "asked"],
               [rtype |-> "dict", result |-> pg.result, requests |-> pg.requests])
       /\ inflight' = [inflight EXCEPT ![s] = NoCall]
  ELSE /\ inflight' = [inflight EXCEPT ![s] =
                         [pc |-> "page", op |-> "list_assessment_control_configs",
                          args |-> args, pg |-> pg, requests |-> pg.requests]]
       /\ UNCHANGED last

\* a host that starts a call while others are suspended on the event loop
StartConcurrently ==
  /\ last = Idle
  /\ \E s \in 1..MaxInFlight :
       \/ \E c \in {"v", " "}, ns \in {<<"v">>, <<" ">>}, cf \in BOOLEAN :
            AttachBegin(s, [assessmentId |-> "v", controlId |-> c, authorityDocument |-> "v",
                            controlIdsInAuthorityDocument |-> <<"v">>, sortId |-> "v",
                            controlNames |-> ns, confirm |-> cf])
       \/ \E cf \in BOOLEAN :
            Begin(s, "create_sql_rule_and_attach",
                  [controlConfigId |-> "v", sqlrule |-> "v", referedEvidenceNames |-> <<"v">>,
                   newEvidenceName |-> "v", confirm |-> cf],
                  create_sql_rule_and_attach("v", "v", <<"v">>, "v", cf, "ok"))
       \/ \E cf \in BOOLEAN :
            Begin(s, "create_control_config_note",
                  [controlConfigId |-> "v", assessmentId |-> "v", notes |-> "v",
                   topic |-> "v", confirm |-> cf],
                  create_control_config_note("v", "v", "v", "v", cf, "ok"))
       \/ Begin(s, "fetch_assessment_runs", [id |-> "v", page |-> 1, pageSize |-> 5],
                fetch_assessment_runs("v", 1, 5, "items"))
       \/ /\ inflight[s] = NoCall
          /\ \E a \in {" ", "plan1"} :
               ListOnLoop(s, [assessmentId |-> a], RunToAwait(Started(a)))
          /\ UNCHANGED <<catalog, selected, confirmed, pager>>

\* the await of a listing on the event loop returns with the answer of the
\* backend: the call goes on to its next await or returns
ListPageAnswered ==
  \E s \in 1..MaxInFlight :
    /\ inflight[s].pc = "page"
    /\ \E output \in {o \in PageOutputs(inflight[s].pg.cur_page) :
                        \/ o.kind = "str"
                        \/ /\ o.kind = "items"
                           /\ o.items = <<"control">>
                           /\ o.TotalPage \in {<<"bad">>, <<"int", 2>>}} :
         ListOnLoop(s, inflight[s].args, RunToAwait(Handled(inflight[s].pg, output)))
    /\ UNCHANGED <<catalog, selected, confirmed, pager>>

AssistantInit ==
  /\ catalog = <<>>
  /\ last = Idle
  /\ selected = <<>>
  /\ confirmed = {}
  /\ pager = PagerIdle
  /\ inflight = NoCalls

AssistantNext ==
  \/ CreateAssessment
  \/ FetchAssessmentRuns
  \/ FetchAssessmentRunsAnswered
  \/ AttachCitation
  \/ AttachBatchAnswered
  \/ AttachSyncAnswered
  \/ CreateSqlRuleAndAttach
  \/ CreateSqlRuleAnswered
  \/ CreateControlConfigNote
  \/ CreateNoteAnswered
  \/ Cancelled
  \/ Return

SpecAssistant == AssistantInit /\ [][AssistantNext]_vars

\* ------------------------------------------ calls sharing the event loop
EventLoopNext ==
  \/ AttachCitation
  \/ StartConcurrently
  \/ AttachBatchAnswered
  \/ AttachSyncAnswered
  \/ CreateSqlRuleAnswered
  \/ CreateNoteAnswered
  \/ FetchAssessmentRunsAnswered
  \/ ListPageAnswered
  \/ Cancelled
  \/ Return

SpecEventLoop == AssistantInit /\ [][EventLoopNext]_vars

\* ====================================================================== claims
Called(op) == last.op = op
Succeeded(op) == last.op = op /\ last.rtype = "dict" /\ last.result.success

\* the catalog position of the task a name resolves to (the first of that name)
TaskNamed(cat, n) == {k \in 1..Len(cat) : cat[k].name = n /\ \A j \in 1..(k - 1) : cat[j].name # n}

\* C2: the overview gives distinct identifiers to distinct (task, input) pairs:
\* every input of every selected task is found in unique_input_map under
\* "{task}.{input}", with that task's name and that task's input object.
C2_DistinctIdsPerTaskInput ==
  Succeeded("prepare_input_collection_overview") =>
    LET map == last.result.unique_input_map
        sel == last.args.selected_tasks
    IN \A s \in 1..Len(sel) : \A k \in TaskNamed(catalog, sel[s]) :
         \A j \in 1..Len(catalog[k].inputs) :
           LET inp == catalog[k].inputs[j]
               id == sel[s] \o <<".">> \o inp.name
           IN /\ id \in DOMAIN map
              /\ map[id].task_name = sel[s]
              /\ map[id].task_input_obj = inp

\* C3: an input is listed under template_inputs iff its templateFile is
\* non-empty or its dataType is FILE / HTTP_CONFIG in any letter case; every
\* other input is listed under parameter_inputs.
FileTypeSpellings == {"FILE", "file", "File", "HTTP_CONFIG", "http_config"}
ListedIn(list, t, n) == \E x \in 1..Len(list) : list[x].task_name = t /\ list[x].input_name = n
C3_TemplateIffTemplateFileOrFileType ==
  Succeeded("prepare_input_collection_overview") =>
    LET ia == last.result.input_analysis
        sel == last.args.selected_tasks
    IN \A s \in 1..Len(sel) : \A k \in TaskNamed(catalog, sel[s]) :
         \A j \in 1..Len(catalog[k].inputs) :
           LET inp == catalog[k].inputs[j]
               isTemplate == inp.templateFile # "" \/ inp.dataType \in FileTypeSpellings
           IN /\ ListedIn(ia.template_inputs, sel[s], inp.name) <=> isTemplate
              /\ ListedIn(ia.parameter_inputs, sel[s], inp.name) <=> ~isTemplate

C3_Witness ==
  /\ Succeeded("prepare_input_collection_overview")
  /\ \E x \in 1..Len(last.result.input_analysis.template_inputs) :
       LET info == last.result.input_analysis.template_inputs[x]
       IN info.data_type = "FILE" /\ ~info.has_template
  /\ last.result.input_analysis.parameter_count > 0

\* C5: when verification succeeds, ready_for_creation is true iff
\* missing_inputs is empty, and missing_count is the length of missing_inputs.
C5_ReadyIffNothingMissing ==
  Succeeded("verify_collected_inputs") =>
    LET missing == last.result.verification_summary.missing_inputs
    IN /\ last.result.ready_for_creation <=> (missing = <<>>)
       /\ last.result.missing_count = Len(missing)

C5_Witness ==
  /\ Succeeded("verify_collected_inputs")
  /\ Len(last.result.verification_summary.missing_inputs) = 1
  /\ ~last.result.ready_for_creation
  /\ last.result.verification_summary.total_collected = 2

\* C6: structured_inputs and task_input_mapping are keyed by bare input name
\* and hold, for each name, the entry processed last, template_files before
\* parameter_values, each group in its given order.
EntriesInOrder(ci) ==
  LET tf == IF "template_files" \in DOMAIN ci THEN ci["template_files"] ELSE <<>>
      pv == IF "parameter_values" \in DOMAIN ci THEN ci["parameter_values"] ELSE <<>>
  IN [k \in 1..(Len(tf) + Len(pv)) |->
        IF k <= Len(tf)
        THEN [id |-> tf[k][1],
              value |-> IF "file_url" \in DOMAIN tf[k][2] THEN tf[k][2].file_url ELSE None]
        ELSE [id |-> pv[k - Len(tf)][1],
              value |-> IF "value" \in DOMAIN pv[k - Len(tf)][2]
                        THEN pv[k - Len(tf)][2].value ELSE None]]
DotAt(id) == CHOOSE d \in 1..Len(id) : id[d] = "." /\ \A e \in 1..(d - 1) : id[e] # "."
Dotted(id) == \E d \in 1..Len(id) : id[d] = "."
BareName(id) == [x \in 1..(Len(id) - DotAt(id)) |-> id[DotAt(id) + x]]
C6_LastWriterWinsOnBareName ==
  Succeeded("verify_collected_inputs") =>
    LET es == EntriesInOrder(last.args.collected_inputs)
        valid == {k \in 1..Len(es) : Dotted(es[k].id)}
        lastOf(n) == CHOOSE k \in valid :
                       /\ BareName(es[k].id) = n
                       /\ \A k2 \in valid : k2 > k => BareName(es[k2].id) # n
        si == last.result.structured_inputs
        tm == last.result.task_input_mapping
    IN /\ DOMAIN si = {BareName(es[k].id) : k \in valid}
       /\ DOMAIN tm = DOMAIN si
       /\ \A n \in DOMAIN si :
            /\ si[n] = es[lastOf(n)].value
            /\ tm[n].unique_id = es[lastOf(n)].id

C6_Witness ==
  /\ Succeeded("verify_collected_inputs")
  /\ LET ci == last.args.collected_inputs
     IN /\ "parameter_values" \in DOMAIN ci
        /\ Len(ci["parameter_values"]) = 2
        /\ ci["parameter_values"][1][1] = <<"FetchData", ".", "Source">>
        /\ ci["parameter_values"][2][1] = <<"Transform", ".", "Source">>
        /\ ci["parameter_values"][1][2] = [value |-> Str("db1"), data_type |-> "STRING", required |-> TRUE]
        /\ ci["parameter_values"][2][2] = [value |-> Str("csv"), required |-> TRUE]
  /\ last.result.structured_inputs[<<"Source">>] = Str("csv")
  /\ DOMAIN last.result.structured_inputs = {<<"Source">>}

\* a value the caller holds as confirmed for some input of bare name n
ConfirmedFor(n, v) ==
  \E p \in confirmed : Dotted(p[1]) /\ BareName(p[1]) = n /\ p[2] = v

\* C1 (as claimed): a value is accepted as ready by verify_collected_inputs,
\* or sent by create_rule, only if a successful confirm call returned it for
\* the same input before.
C1_OnlyConfirmedValuesReachTheRule ==
  /\ (Succeeded("verify_collected_inputs") /\ last.result.ready_for_creation) =>
       \A n \in DOMAIN last.result.structured_inputs :
         <<last.result.task_input_mapping[n].unique_id,
           last.result.structured_inputs[n]>> \in confirmed
  /\ (Called("create_rule") /\ last.requests # <<>>) =>
       \A n \in DOMAIN last.requests[1].body.spec.inputs :
         ConfirmedFor(n, last.requests[1].body.spec.inputs[n])

\* C1 (amended): the tools pass on what the caller hands them and check no
\* confirmation: when every entry handed to verify_collected_inputs carries a
\* confirmed value, every structured input is the confirmed value of the input
\* it is mapped to; create_rule sends the rule structure it was given, so
\* its inputs are confirmed values when the given ones are.
C1_ConfirmedInConfirmedOut ==
  /\ Succeeded("verify_collected_inputs") =>
       LET es == EntriesInOrder(last.args.collected_inputs)
       IN (\A k \in 1..Len(es) : Dotted(es[k].id) => <<es[k].id, es[k].value>> \in confirmed)
          => \A n \in DOMAIN last.result.structured_inputs :
               <<last.result.task_input_mapping[n].unique_id,
                 last.result.structured_inputs[n]>> \in confirmed
  /\ (Called("create_rule") /\ last.requests # <<>>) =>
       /\ Len(last.requests) = 1
       /\ last.requests[1].body = last.args.rule_structure
       /\ (\A n \in DOMAIN last.args.rule_structure.spec.inputs :
             ConfirmedFor(n, last.args.rule_structure.spec.inputs[n]))
          => \A n \in DOMAIN last.requests[1].body.spec.inputs :
               ConfirmedFor(n, last.requests[1].body.spec.inputs[n])

C1_Witness ==
  /\ Succeeded("verify_collected_inputs")
  /\ last.result.ready_for_creation
  /\ DOMAIN last.result.structured_inputs = {<<"Source">>, <<"Config">>}
  /\ LET es == EntriesInOrder(last.args.collected_inputs)
     IN \A k \in 1..Len(es) : <<es[k].id, es[k].value>> \in confirmed
  /\ <<<<"Transform", ".", "Config">>, last.result.structured_inputs[<<"Config">>]>> \in confirmed

\* C4: an input a selected task declares required and that has no entry in
\* collected_inputs is listed in missing_inputs, and ready_for_creation is false.
EntryIds(ci) == {EntriesInOrder(ci)[k].id : k \in 1..Len(EntriesInOrder(ci))}
C4_AbsentRequiredInputFlagged ==
  Succeeded("verify_collected_inputs") =>
    \A s \in 1..Len(selected) : \A k \in TaskNamed(catalog, selected[s]) :
      \A j \in 1..Len(catalog[k].inputs) :
        LET inp == catalog[k].inputs[j]
            id == selected[s] \o <<".">> \o inp.name
        IN (inp.required /\ id \notin EntryIds(last.args.collected_inputs)) =>
             /\ \E m \in 1..Len(last.result.verification_summary.missing_inputs) :
                  last.result.verification_summary.missing_inputs[m] = id
             /\ ~last.result.ready_for_creation

\* the input a by-name tool call is about, when the task and the input exist
CalledInput ==
  LET ks == TaskNamed(catalog, last.args.task_name)
  IN IF last.env.fetch = "raise" \/ ks = {} THEN <<>>
     ELSE LET t == catalog[CHOOSE k \in ks : TRUE]
              js == {j \in 1..Len(t.inputs) : t.inputs[j].name = last.args.input_name}
          IN IF js = {} THEN <<>> ELSE <<t.inputs[CHOOSE j \in js : \A j2 \in js : j <= j2]>>

\* C7: when the validation of user_content fails, collect_template_input
\* returns success false without validated_content or
\* needs_final_confirmation, and sends nothing to the backend.
C7_InvalidContentNeverStaged ==
  (Called("collect_template_input") /\ CalledInput # <<>>
     /\ ~validate_template_content_enhanced(CalledInput[1], last.args.user_content).valid) =>
    /\ last.rtype = "dict"
    /\ last.result.success = FALSE
    /\ "validated_content" \notin DOMAIN last.result
    /\ "needs_final_confirmation" \notin DOMAIN last.result
    /\ last.requests = <<>>

C7_Witness ==
  /\ Called("collect_template_input") /\ CalledInput # <<>>
  /\ CalledInput[1].format = "json"
  /\ last.args.user_content = "garbage"
  /\ last.result.error = "Content validation failed"

\* C8: whenever collect_template_input succeeds, the staged
\* validated_content is the user_content argument itself.
C8_OnlyUserContentStaged ==
  Succeeded("collect_template_input") =>
    /\ "validated_content" \in DOMAIN last.result
    /\ last.result.validated_content = last.args.user_content

C8_Witness ==
  /\ Succeeded("collect_template_input")
  /\ CalledInput # <<>> /\ CalledInput[1].templateFile = "b64:tmplJson"
  /\ last.args.user_content = "userJson"
  /\ last.result.validated_content = "userJson"

\* C9: the tools before the confirmation stage send no upload and no
\* rule-creation request; an upload request comes only from upload_file or
\* from confirm_template_input for an input of type FILE / HTTP_CONFIG.
BeforeConfirmation ==
  {"get_template_guidance", "collect_template_input", "collect_parameter_input",
   "confirm_parameter_input", "prepare_input_collection_overview",
   "verify_collected_inputs"}
C9_NothingPersistedBeforeConfirmation ==
  /\ last.op \in BeforeConfirmation => last.requests = <<>>
  /\ \A k \in 1..Len(last.requests) :
       /\ last.requests[k].kind = "upload" =>
            \/ Called("upload_file")
            \/ /\ Called("confirm_template_input")
               /\ CalledInput # <<>>
               /\ CalledInput[1].dataType \in FileTypeSpellings
       /\ last.requests[k].kind = "create_rule" => Called("create_rule")

C9_Witness ==
  /\ Called("confirm_template_input")
  /\ Len(last.requests) = 1 /\ last.requests[1].kind = "upload"
  /\ CalledInput # <<>> /\ CalledInput[1].dataType = "http_config"

\* C10: a successful collect_parameter_input carries exactly one of
\* needs_default_confirmation (use_default and a non-empty default, whatever
\* user_value is), needs_final_confirmation (otherwise, a given valid value,
\* converted) and needs_user_input (otherwise); nothing is stored.
Flags == {"needs_default_confirmation", "needs_final_confirmation", "needs_user_input"}
C10_OneFlagByPrecedence ==
  Succeeded("collect_parameter_input") =>
    LET inp == CalledInput[1]
        r == last.result
        dflt == last.args.use_default /\ inp.defaultValue # ""
        given == last.args.user_value # None
    IN /\ Cardinality(Flags \cap DOMAIN r) = 1
       /\ \A f \in Flags \cap DOMAIN r : r[f] = TRUE
       /\ dflt => /\ "needs_default_confirmation" \in DOMAIN r
                  /\ r.default_value = Str(inp.defaultValue)
       /\ (~dflt /\ given) =>
            /\ "needs_final_confirmation" \in DOMAIN r
            /\ validate_parameter_value(last.args.user_value, inp.dataType).valid
            /\ r.validated_value =
                 validate_parameter_value(last.args.user_value, inp.dataType).converted_value
       /\ (~dflt /\ ~given) => "needs_user_input" \in DOMAIN r
       /\ {"stored_value", "storage_type"} \cap DOMAIN r = {}

C10_Witness ==
  /\ Succeeded("collect_parameter_input")
  /\ last.args.use_default /\ last.args.user_value = Str("12")
  /\ "needs_default_confirmation" \in DOMAIN last.result
  /\ last.result.default_value = Str("5")
\* the name {taskName}_{inputName}{ext} of the confirm call in progress
DeterministicName ==
  last.args.task_name \o <<"_">> \o last.args.input_name
    \o <<get_file_extension(CalledInput[1].format)>>

\* the file name another confirmation of the same input would upload under
UploadNameFor(content, seed) ==
  confirm_template_input(catalog, "ok", last.args.rule_name, last.args.task_name,
                         last.args.input_name, content, "ok", seed, "t1").requests[1].fileName

\* C11 (as claimed): confirm_template_input uploads a FILE / HTTP_CONFIG
\* input under exactly {taskName}_{inputName}{ext}, so that confirming the
\* same input again, with any content, uploads under the same name.
C11_UploadNameIsDeterministic ==
  (Called("confirm_template_input") /\ last.requests # <<>>) =>
    /\ last.requests[1].fileName = DeterministicName
    /\ \A c \in UserContents, sd \in Seeds :
         UploadNameFor(c, sd) = last.requests[1].fileName

\* C11 (amended): the upload goes under file_<id>_{taskName}_{inputName}{ext},
\* where <id> is derived from the hash of the encoded content; only the
\* "filename" field of the result is {taskName}_{inputName}{ext}.  Confirming
\* the same content again in the same process uploads under the same name.
C11_UploadNameIsIdThenDeterministicName ==
  (Called("confirm_template_input") /\ last.requests # <<>>) =>
    /\ Len(last.requests[1].fileName) = 3 + Len(DeterministicName)
    /\ SubSeq(last.requests[1].fileName, 1, 3)
         = <<"file_", HashTok(last.env.seed, B64(last.args.confirmed_content)), "_">>
    /\ SubSeq(last.requests[1].fileName, 4, Len(last.requests[1].fileName)) = DeterministicName
    /\ last.result.success => last.result.filename = DeterministicName
    /\ UploadNameFor(last.args.confirmed_content, last.env.seed) = last.requests[1].fileName

C11_Witness ==
  /\ Succeeded("confirm_template_input")
  /\ last.requests # <<>>
  /\ last.args.task_name = <<"Transform">> /\ last.args.input_name = <<"Config">>
  /\ last.result.filename = <<"Transform", "_", "Config", ".json">>
  /\ last.requests[1].fileName # last.result.filename
  /\ \E c \in UserContents : UploadNameFor(c, last.env.seed) # last.requests[1].fileName
\* the conversion of a text to the declared type of the input called
ConvertedForCalledInput(value) ==
  validate_parameter_value(value, CalledInput[1].dataType).converted_value

C13_FailedUploadNotConfirmed ==
  /\ (Called("confirm_template_input") /\ last.requests # <<>> /\ last.env.post # "ok") =>
       /\ last.rtype = "dict"
       /\ last.result.success = FALSE
       /\ "error" \in DOMAIN last.result
       /\ {"file_url", "storage_type"} \cap DOMAIN last.result = {}
  /\ (Called("upload_file")
        /\ (last.env.post # "ok" \/ last.args.content_encoding \notin {"utf-8", "base64"})) =>
       /\ last.rtype = "dict"
       /\ last.result.success = FALSE
       /\ "error" \in DOMAIN last.result
       /\ "file_url" \notin DOMAIN last.result

C13_Witness ==
  /\ Called("confirm_template_input")
  /\ Len(last.requests) = 1 /\ last.requests[1].kind = "upload"
  /\ last.env.post = "nourl"
  /\ last.result.success = FALSE
  /\ last.result.error = "File upload failed"
\* C14: create_rule sends nothing when the rule structure fails validation
\* and answers success false with the validation errors; a rule-creation
\* request is sent only for a structure that passed validation.
C14_NoRequestBeforeValidation ==
  Called("create_rule") =>
    LET v == validate_rule_structure(last.args.rule_structure)
    IN /\ ~v.valid => /\ last.requests = <<>>
                      /\ last.rtype = "dict"
                      /\ last.result.success = FALSE
                      /\ last.result.validation_errors = v.errors
                      /\ v.errors # <<>>
       /\ last.requests # <<>> => v.valid

C14_Witness ==
  /\ Called("create_rule")
  /\ last.args.rule_structure.meta.name = "MyRule"
  /\ last.args.rule_structure.spec.tasks = <<>>
  /\ last.env.post = "ok"
  /\ last.requests = <<>>
  /\ last.result.validation_errors = <<"spec.tasks">>
\* C15: nothing is retried: one create_rule call sends at most one
\* rule-creation request and one upload_file or confirm_template_input call
\* at most one upload, whatever the backend answers; when the backend fails
\* the call returns a failure.
C15_AtMostOneRequestPerCall ==
  /\ Called("create_rule") =>
       /\ Len(last.requests) <= 1
       /\ \A k \in 1..Len(last.requests) : last.requests[k].kind = "create_rule"
       /\ (last.requests # <<>> /\ last.env.post # "ok") => last.result.success = FALSE
  /\ last.op \in {"upload_file", "confirm_template_input"} =>
       /\ Len(last.requests) <= 1
       /\ \A k \in 1..Len(last.requests) : last.requests[k].kind = "upload"
       /\ (last.requests # <<>> /\ last.env.post # "ok") => last.result.success = FALSE

C15_Witness ==
  /\ Called("create_rule")
  /\ last.env.post = "raise"
  /\ Len(last.requests) = 1
  /\ last.result.success = FALSE
  /\ last.result.error = "Failed to create rule"
\* C16: every tool call ends with a dictionary that has a boolean success
\* field; none returns a bare string.
C16_EveryCallReturnsSuccessDict ==
  (last # Idle /\ ~Called("get_tasks_by_category")) =>
    /\ last.rtype = "dict"
    /\ "success" \in DOMAIN last.result
    /\ last.result.success \in BOOLEAN
\* the application types of the rule's tasks without the placeholder
ValidAppTypes(tasks) ==
  UNION {SeqToSet(tasks[k].appType) : k \in 1..Len(tasks)} \ {"nocredapp"}

\* C17 (as claimed): the rule create_rule submits carries one value in
\* appType, annotateType and app, the same in all three: the only
\* application type of its tasks that is not 'nocredapp', or 'generic' when
\* there is none; with several such types no value is picked.
C17_SubmittedRuleHasPrimaryAppType ==
  (Called("create_rule") /\ last.requests # <<>>) =>
    LET meta == last.requests[1].body.meta
        valid == ValidAppTypes(last.requests[1].body.spec.tasks)
    IN /\ Len(meta.appType) = 1
       /\ meta.annotateType = meta.appType /\ meta.app = meta.appType
       /\ Cardinality(valid) <= 1
       /\ Cardinality(valid) = 1 => meta.appType[1] \in valid
       /\ Cardinality(valid) = 0 => meta.appType[1] = "generic"

\* C17 (amended): create_rule neither determines nor checks the primary
\* application type; the rule it submits carries the appType, annotateType
\* and app of the rule structure it was given, and the tasks' own types,
\* unchanged.
C17_AppTypeSubmittedAsGiven ==
  (Called("create_rule") /\ last.requests # <<>>) =>
    LET given == last.args.rule_structure
        sent == last.requests[1].body
    IN /\ sent.meta.appType = given.meta.appType
       /\ sent.meta.annotateType = given.meta.annotateType
       /\ sent.meta.app = given.meta.app
       /\ Len(sent.spec.tasks) = Len(given.spec.tasks)
       /\ \A k \in 1..Len(given.spec.tasks) :
            sent.spec.tasks[k].appType = given.spec.tasks[k].appType

C17_Witness ==
  /\ Succeeded("create_rule")
  /\ last.requests # <<>>
  /\ last.requests[1].body.meta.appType = <<"Slack", "Jira">>
  /\ ValidAppTypes(last.requests[1].body.spec.tasks) = {"Slack"}
  /\ Len(last.requests[1].body.spec.tasks) = 2
\* the selected names the catalog has no task for
AbsentNames(sel) == {n \in SeqToSet(sel) : TaskNamed(catalog, n) = {}}

\* the number of inputs of the selected tasks that the catalog has
RECURSIVE InputsOfPresent(_)
InputsOfPresent(sel) ==
  IF sel = <<>> THEN 0
  ELSE (IF TaskNamed(catalog, Head(sel)) = {} THEN 0
        ELSE Len(catalog[CHOOSE k \in TaskNamed(catalog, Head(sel)) : TRUE].inputs))
       + InputsOfPresent(Tail(sel))

\* what the overview holds when unknown names were skipped: records for the
\* inputs of the selected tasks the catalog has, and for nothing else
OnlyPresentTasksAnalysed ==
  LET ia == last.result.input_analysis
      sel == last.args.selected_tasks
      records == ia.template_inputs \o ia.parameter_inputs
  IN /\ last.result.success
     /\ ia.total_count = InputsOfPresent(sel)
     /\ Len(records) = ia.total_count
     /\ ia.template_count = Len(ia.template_inputs)
     /\ ia.parameter_count = Len(ia.parameter_inputs)
     /\ \A x \in 1..Len(records) :
          /\ records[x].task_name \in SeqToSet(sel) \ AbsentNames(sel)
          /\ records[x].unique_input_id \in DOMAIN ia.unique_input_map
     /\ \A id \in DOMAIN ia.unique_input_map :
          ia.unique_input_map[id].task_name \in SeqToSet(sel) \ AbsentNames(sel)
     /\ \A s \in 1..Len(sel) : \A k \in TaskNamed(catalog, sel[s]) :
          \A j \in 1..Len(catalog[k].inputs) :
            ListedIn(records, sel[s], catalog[k].inputs[j].name)

\* C18 (as claimed): an overview call whose selected tasks include a name
\* the catalog does not have still succeeds, with records for exactly the
\* inputs of the tasks that are there (none, and total_count 0, when every
\* name is unknown).
C18_AbsentTaskSkipped ==
  (Called("prepare_input_collection_overview") /\ last.env.fetch = "ok"
     /\ AbsentNames(last.args.selected_tasks) # {}) =>
    /\ last.rtype = "dict"
    /\ OnlyPresentTasksAnalysed

\* C18 (amended): the same, provided the catalog call returned at least one
\* task; when it returned none the call fails with "No tasks loaded" instead
\* of skipping the names.
C18_AbsentTaskSkippedWhenTasksLoaded ==
  (Called("prepare_input_collection_overview") /\ last.env.fetch = "ok"
     /\ AbsentNames(last.args.selected_tasks) # {}) =>
    /\ catalog # <<>> => (last.rtype = "dict" /\ OnlyPresentTasksAnalysed)
    /\ catalog = <<>> => (last.result.success = FALSE
                          /\ last.result.error = "No tasks loaded")

C18_Witness ==
  /\ Succeeded("prepare_input_collection_overview")
  /\ last.args.selected_tasks = <<<<"Nope">>, <<"Transform">>>>
  /\ last.result.input_analysis.total_count = 2
  /\ DOMAIN last.result.unique_input_map
       = {<<"Transform", ".", "Source">>, <<"Transform", ".", "Config">>}
\* the pages a listing has requested are 1, 2, 3, ... in this order
PagesInSequence ==
  pager.pc # "idle" =>
    /\ Len(pager.requests) <= max_pages
    /\ \A k \in 1..Len(pager.requests) : pager.requests[k].page = k

\* C19: a listing requests at most 10 pages, numbered 1, 2, 3, ... without
\* gap or repeat, whatever the backend answers, and every listing that was
\* started ends: it returns, unless its task is cancelled at an await.
C19_PagingBoundedAndTerminates ==
  /\ []PagesInSequence
  /\ [][pager.pc \in {"loop", "await"} /\ pager'.pc \notin {"loop", "await"}
          => \/ pager'.pc = "returned"
             \/ pager.pc = "await" /\ pager' = [pager EXCEPT !.pc = "cancelled"]]_vars
  /\ (pager.pc \in {"loop", "await"}) ~> (pager.pc \in {"returned", "cancelled"})

C19_Witness ==
  /\ pager.pc = "returned"
  /\ Len(pager.requests) = max_pages
  /\ pager.has_next
  /\ pager.result.success
  /\ pager.result.totalCount = max_pages
\* the tools that write to the backend behind a confirm flag
ConfirmGated ==
  {"attach_citation_to_control_config", "create_sql_rule_and_attach",
   "create_control_config_note"}

NonBlank(x) == x \in {"v"}

\* the mandatory arguments a of a call of the tool op are all usable
MandatoryGivenTo(op, a) ==
     CASE op = "attach_citation_to_control_config" ->
            /\ NonBlank(a.assessmentId) /\ NonBlank(a.controlId)
            /\ NonBlank(a.authorityDocument) /\ NonBlank(a.sortId)
            /\ Len(a.controlIdsInAuthorityDocument) > 0 /\ Len(a.controlNames) > 0
       [] op = "create_sql_rule_and_attach" ->
            /\ NonBlank(a.controlConfigId) /\ NonBlank(a.sqlrule)
            /\ NonBlank(a.newEvidenceName) /\ Len(a.referedEvidenceNames) > 0
       [] OTHER ->
            NonBlank(a.controlConfigId) /\ NonBlank(a.assessmentId) /\ NonBlank(a.notes)

\* the mandatory arguments of the call in progress are all usable
MandatoryGiven == MandatoryGivenTo(last.op, last.args)

IsPreviewResult ==
  /\ last.result.success
  /\ "next_step" \in DOMAIN last.result

\* C20 (as claimed): a call with confirm=False sends nothing and returns a
\* preview with success true; a request is sent only by a call with
\* confirm=True whose mandatory arguments are all usable.
C20_ConfirmFalseIsAlwaysPreview ==
  last.op \in ConfirmGated =>
    /\ ~last.args.confirm => (last.requests = <<>> /\ IsPreviewResult)
    /\ last.requests # <<>> => (last.args.confirm /\ MandatoryGiven)

\* C20 (amended): a call with confirm=False sends nothing; it returns a
\* preview with success true when its mandatory arguments are all usable
\* and the validation failure otherwise.  A request is sent only by a call
\* with confirm=True whose mandatory arguments are all usable, and every
\* request is a POST.  The same holds of a call still suspended at an await.
C20_ConfirmGatesEveryWrite ==
  /\ \A s \in 1..MaxInFlight :
       (inflight[s] # NoCall /\ inflight[s].op \in ConfirmGated) =>
         /\ inflight[s].requests # <<>>
         /\ inflight[s].args.confirm
         /\ MandatoryGivenTo(inflight[s].op, inflight[s].args)
         /\ \A k \in 1..Len(inflight[s].requests) : inflight[s].requests[k].method = "POST"
  /\ last.op \in ConfirmGated =>
    /\ ~last.args.confirm => last.requests = <<>>
    /\ (~last.args.confirm /\ MandatoryGiven) => IsPreviewResult
    /\ ~MandatoryGiven => /\ last.requests = <<>>
                          /\ last.result.success = FALSE
                          /\ "next_step" \notin DOMAIN last.result
    /\ last.requests # <<>> => (last.args.confirm /\ MandatoryGiven)
    /\ (last.args.confirm /\ MandatoryGiven) => last.requests # <<>>
    /\ \A k \in 1..Len(last.requests) : last.requests[k].method = "POST"

C20_Witness ==
  /\ Called("create_sql_rule_and_attach")
  /\ ~last.args.confirm /\ MandatoryGiven
  /\ last.env.post = "unasked"
  /\ last.requests = <<>>
  /\ last.result.success /\ last.result.sqlQuery = "v"

\* C22: get_template_guidance, when the backend raises nothing, fails in
\* exactly three cases, tested in this order: no task of the name, no input
\* of the name in the task, an input with an empty templateFile. A failure
\* carries no decoded template; every other call returns success true with
\* the decoded template of the input it named.
GuidanceTasks == TaskNamed(catalog, last.args.task_name)
GuidanceTask == catalog[CHOOSE k \in GuidanceTasks : TRUE]
GuidanceInputs ==
  {j \in 1..Len(GuidanceTask.inputs) : GuidanceTask.inputs[j].name = last.args.input_name}
GuidanceInput == GuidanceTask.inputs[CHOOSE j \in GuidanceInputs : \A j2 \in GuidanceInputs : j <= j2]
GuidanceFails(err) ==
  /\ last.result = Fail(err)
  /\ "decoded_template" \notin DOMAIN last.result
C22_GuidanceFailsInThreeCases ==
  (Called("get_template_guidance") /\ last.env.fetch = "ok") =>
    /\ last.rtype = "dict"
    /\ CASE GuidanceTasks = {} -> GuidanceFails("Task not found")
         [] GuidanceInputs = {} -> GuidanceFails("Input not found")
         [] GuidanceInput.templateFile = "" -> GuidanceFails("no template file")
         [] OTHER -> /\ last.result.success
                     /\ last.result.decoded_template = decode_content(GuidanceInput.templateFile)
                     /\ last.result.task_name = last.args.task_name
                     /\ last.result.input_name = last.args.input_name

\* a call that names an existing input which has no template file
C22_Witness ==
  /\ Called("get_template_guidance") /\ last.env.fetch = "ok"
  /\ GuidanceTasks # {}
  /\ GuidanceInputs # {}
  /\ GuidanceInput.templateFile = ""
  /\ last.result = Fail("no template file")

\* C23: tasks://by-category/{category} summarises the tasks of the category:
\* when the backend returns n >= 1 tasks, the result lists n summaries, the
\* k-th with the name of the k-th task returned, and count is n.
C23_OneSummaryPerReturnedTask ==
  (Called("get_tasks_by_category") /\ last.env.fetch = "ok"
     /\ last.args.category = "primitive" /\ Len(catalog) >= 1) =>
    /\ "tasks" \in DOMAIN last.result
    /\ Len(last.result.tasks) = Len(catalog)
    /\ \A k \in 1..Len(last.result.tasks) : last.result.tasks[k].name = catalog[k].name
    /\ "count" \in DOMAIN last.result
    /\ last.result.count = Len(catalog)

\* C24: create_assessment, given a document with a non-blank metadata.name
\* and metadata.categoryName and a backend that answers every request
\* successfully, returns success true; it creates a category only when no
\* existing one has exactly the trimmed categoryName, uses the existing id
\* otherwise, and posts the assessment with that category id.
CategoryPosts == {k \in 1..Len(last.requests) : last.requests[k] = PostRequest("assessment-categories", [name |-> Strip(last.args.yaml_content.categoryName)])}
AssessmentPosts == {k \in 1..Len(last.requests) : last.requests[k].kind = "assessments"}
ExistingCategories ==
  {k \in 1..Len(last.env.categories) :
     Strip(last.env.categories[k].name) = Strip(last.args.yaml_content.categoryName)}
C24_AssessmentCreatedInResolvedCategory ==
  (/\ Called("create_assessment")
   /\ last.args.yaml_content.kind = "doc"
   /\ ~BlankText(last.args.yaml_content.name)
   /\ ~BlankText(last.args.yaml_content.categoryName)
   /\ last.env.get = "list" /\ last.env.cpost = "ok" /\ last.env.apost = "ok") =>
    /\ last.result.success
    /\ (CategoryPosts # {}) <=> (ExistingCategories = {})
    /\ Cardinality(AssessmentPosts) = 1
    /\ \A k \in AssessmentPosts :
         last.requests[k].payload.categoryId =
           IF ExistingCategories = {} THEN Str("new")
           ELSE Str(last.env.categories[CHOOSE e \in ExistingCategories :
                                          \A e2 \in ExistingCategories : e <= e2].id)

\* C25: fetch_assessment_runs enforces the pagination limits before it
\* talks to the backend: every request it sends has page >= 1 and a page
\* size in 1..10; every call with pageSize > 10 returns 'max page size is
\* 10'; every call with page 0 and pageSize 0 returns 'use pagination' and
\* sends no request.
C25_PaginationEnforcedBeforeRequest ==
  Called("fetch_assessment_runs") =>
    /\ \A k \in 1..Len(last.requests) :
         /\ last.requests[k].payload.page >= 1
         /\ last.requests[k].payload.page_size \in 1..MaxPageSize
    /\ (last.args.pageSize > MaxPageSize /\ last.env.get # "raise") =>
         (last.rtype = "str" /\ last.result = "max page size is 10")
    /\ (last.args.page = 0 /\ last.args.pageSize = 0) =>
         /\ last.env.get # "raise" => (last.rtype = "str" /\ last.result = "use pagination")
         /\ last.requests = <<>>

\* C26: in a confirmed attach_citation_to_control_config, the CCF-id sync
\* request is sent only after the attach request, only when that request
\* was answered with a dict without Message, and at most once; whatever
\* the sync answers, the result is success true with the citations. When
\* the attach fails, no sync request is sent.  A call suspended at its
\* first await has sent the attach request alone; one suspended at its
\* second has had the attach answered without Message.
SyncRequests == {k \in 1..Len(last.requests) : last.requests[k].kind = "plans/sync-ccfid"}
AttachRequests ==
  {k \in 1..Len(last.requests) : last.requests[k].kind = "plan-control-citations/batch"}
AttachAnsweredWithoutMessage == last.env.post \in {"ok", "error"}
SuspendedInOrder ==
  \A s \in 1..MaxInFlight :
    /\ inflight[s].pc = "batch" =>
         /\ Len(inflight[s].requests) = 1
         /\ inflight[s].requests[1].kind = "plan-control-citations/batch"
    /\ inflight[s].pc = "sync" =>
         /\ inflight[s].post \in {"ok", "error"}
         /\ Len(inflight[s].requests) = 2
         /\ inflight[s].requests[1].kind = "plan-control-citations/batch"
         /\ inflight[s].requests[2].kind = "plans/sync-ccfid"
C26_SyncFollowsAttachAndNeverFails ==
  /\ SuspendedInOrder
  /\ Called("attach_citation_to_control_config") =>
       /\ Cardinality(SyncRequests) <= 1
       /\ \A k \in SyncRequests :
            /\ AttachAnsweredWithoutMessage
            /\ last.args.confirm
            /\ \E a \in AttachRequests : a < k
            /\ last.requests[k].payload.controlId = Strip(last.args.controlId)
            /\ last.requests[k].payload.planID = Strip(last.args.assessmentId)
       /\ (AttachRequests # {} /\ AttachAnsweredWithoutMessage) =>
            /\ Cardinality(SyncRequests) = 1
            /\ last.result.success
            /\ "citations" \in DOMAIN last.result
            /\ last.result.citations =
                 IF last.env.post = "ok"
                 THEN <<[id |-> "c1", planControlID |-> Strip(last.args.controlId)]>>
                 ELSE <<>>
       /\ (AttachRequests # {} /\ ~AttachAnsweredWithoutMessage) =>
            /\ SyncRequests = {}
            /\ ~last.result.success

\* a confirmed attach whose sync request raised returns a success, while
\* another attach is still suspended at its own sync request
C26_Witness ==
  /\ Called("attach_citation_to_control_config")
  /\ last.env.post = "ok"
  /\ last.env.sync = "raise"
  /\ SyncRequests = {2}
  /\ AttachRequests = {1}
  /\ last.result.success
  /\ Len(last.result.citations) = 1
  /\ \E s \in 1..MaxInFlight : inflight[s].pc = "sync"

\* the entries of collected_inputs whose identifier has a dot, in the order
\* verify_collected_inputs reads them
ValidEntries(ci) == SelectSeq(EntriesInOrder(ci), LAMBDA e : Dotted(e.id))
MetaNames(im) == {im[k].name : k \in 1..Len(im)}

\* C27 (as claimed): in a successful verification, inputs_meta,
\* structured_inputs and task_input_mapping describe the same inputs one to
\* one: the names of inputs_meta are the keys of both maps, no name occurs
\* twice in inputs_meta, and the defaultValue of each entry is
\* structured_inputs[name].
C27_MetaOneToOneWithStructuredInputs ==
  Succeeded("verify_collected_inputs") =>
    LET im == last.result.inputs_meta
        si == last.result.structured_inputs
    IN /\ MetaNames(im) = DOMAIN si
       /\ MetaNames(im) = DOMAIN last.result.task_input_mapping
       /\ \A i, j \in 1..Len(im) : i # j => im[i].name # im[j].name
       /\ \A k \in 1..Len(im) : im[k].defaultValue = si[im[k].name]

\* C27 (amended): in a successful verification the names of inputs_meta are
\* the keys of structured_inputs and of task_input_mapping; inputs_meta has
\* one entry for each collected entry with a dotted identifier, in order,
\* with that entry's bare name and value, so a bare name collected for two
\* tasks occurs twice; the last entry of a name carries
\* structured_inputs[name].
C27_MetaPerEntryLastMatchesStructured ==
  Succeeded("verify_collected_inputs") =>
    LET im == last.result.inputs_meta
        si == last.result.structured_inputs
        es == ValidEntries(last.args.collected_inputs)
    IN /\ MetaNames(im) = DOMAIN si
       /\ MetaNames(im) = DOMAIN last.result.task_input_mapping
       /\ Len(im) = Len(es)
       /\ \A k \in 1..Len(im) :
            /\ im[k].name = BareName(es[k].id)
            /\ im[k].defaultValue = es[k].value
            /\ (\A k2 \in (k + 1)..Len(im) : im[k2].name # im[k].name) =>
                 im[k].defaultValue = si[im[k].name]

\* two parameters of the same bare name with different values were verified
C27_Witness ==
  /\ Succeeded("verify_collected_inputs")
  /\ Len(last.result.inputs_meta) = 2
  /\ last.result.inputs_meta[1].name = <<"Source">>
  /\ last.result.inputs_meta[2].name = <<"Source">>
  /\ last.result.inputs_meta[1].defaultValue = Str("db1")
  /\ last.result.inputs_meta[2].defaultValue = Str("csv")
  /\ last.result.structured_inputs[<<"Source">>] = Str("csv")

\* the inputs an overview lists, template inputs first
ListedInputs == last.result.input_analysis.template_inputs \o last.result.input_analysis.parameter_inputs

\* C28: the identifier the overview builds for a (task, input) pair is
\* split by verify_collected_inputs back into that task name and that
\* input name, also when one of the names contains a dot.
C28_IdentifierRoundTrip ==
  Succeeded("prepare_input_collection_overview") =>
    \A k \in 1..Len(ListedInputs) :
      LET info == ListedInputs[k]
      IN /\ HasDot(info.unique_input_id)
         /\ SplitTask(info.unique_input_id) = info.task_name
         /\ SplitInput(info.unique_input_id) = info.input_name

\* what get_template_guidance answers, on the catalog of the overview, for
\* an input the overview lists
GuidanceFor(info) == get_template_guidance(catalog, "ok", info.task_name, info.input_name).result

\* C29 (as claimed): every input the overview lists under template_inputs
\* is one for which get_template_guidance, on the same catalog, returns
\* success true.
C29_ListedTemplateHasGuidance ==
  Succeeded("prepare_input_collection_overview") =>
    \A k \in 1..Len(last.result.input_analysis.template_inputs) :
      GuidanceFor(last.result.input_analysis.template_inputs[k]).success

\* C29 (amended): for an input the overview lists under template_inputs,
\* get_template_guidance returns success true with the decoded template
\* exactly when the input has a template file (has_template); an input
\* listed only for its FILE or HTTP_CONFIG data type gets the answer that it
\* has no template file.
C29_GuidanceIffListedInputHasTemplate ==
  Succeeded("prepare_input_collection_overview") =>
    \A k \in 1..Len(last.result.input_analysis.template_inputs) :
      LET info == last.result.input_analysis.template_inputs[k]
      IN /\ GuidanceFor(info).success <=> info.has_template
         /\ info.has_template => "decoded_template" \in DOMAIN GuidanceFor(info)
         /\ ~info.has_template =>
              /\ GuidanceFor(info) = Fail("no template file")
              /\ Upper(info.data_type) \in {"FILE", "HTTP_CONFIG"}

\* an overview that lists both Transform.Config, a FILE input without a
\* template file, and an input with one
C29_Witness ==
  /\ Succeeded("prepare_input_collection_overview")
  /\ \E k \in 1..Len(last.result.input_analysis.template_inputs) :
       LET info == last.result.input_analysis.template_inputs[k]
       IN /\ info.task_name = <<"Transform">>
          /\ info.input_name = <<"Config">>
          /\ ~info.has_template
          /\ ~GuidanceFor(info).success
  /\ \E k \in 1..Len(last.result.input_analysis.template_inputs) :
       LET info == last.result.input_analysis.template_inputs[k]
       IN info.has_template /\ GuidanceFor(info).success

\* the entry is what a successful confirm_template_input returned for the
\* input: its file_url, filename, data_type and format
PassedFromConfirm(entry) ==
  /\ DOMAIN entry[2] = {"file_url", "filename", "data_type", "format"}
  /\ <<entry[1], entry[2].file_url>> \in confirmed
MissingIds == SeqToSet(last.result.verification_summary.missing_inputs)

\* C30: a template input confirmed by confirm_template_input with a
\* successful upload, and handed to verify_collected_inputs as that call
\* returned it, is reported with the check-mark status, is not listed in
\* missing_inputs, and its file_url is the structured value; a parameter
\* entry is listed in missing_inputs exactly when its value is None.
C30_ConfirmedTemplateAcceptedByVerify ==
  Succeeded("verify_collected_inputs") =>
    LET tf == last.args.collected_inputs["template_files"]
        pv == last.args.collected_inputs["parameter_values"]
        vs == last.result.verification_summary
    IN /\ \A k \in 1..Len(tf) :
            PassedFromConfirm(tf[k]) =>
              /\ vs.template_files[k].status = StatusValidated
              /\ tf[k][1] \notin MissingIds
              /\ last.result.structured_inputs[BareName(tf[k][1])] = tf[k][2].file_url
       /\ \A k \in 1..Len(pv) :
            (pv[k][1] \in MissingIds) <=> (Get(pv[k][2], "value") = None)

====
